---- MODULE Spec2Model ----
(***************************************************************************)
(* iPSC culture tracker: the thaw-id generator, the log store and the      *)
(* patch layer of src/db.py, and the handlers of src/app.py that call      *)
(* them (entry form submit, history editor save, run-sheet save).          *)
(*                                                                         *)
(* Text values that the code takes apart (cell line, operator name, thaw   *)
(* id) are sequences of one-character strings; dates are the integers      *)
(* whose decimal digits are YYYYMMDD (2024-03-01 is 20240301), so that the *)
(* order of dates is the order of the integers; a nullable column holds    *)
(* <<>> for NULL and <<v>> for the value v.                                *)
(***************************************************************************)
EXTENDS Integers, Sequences, FiniteSets, TLC

VARIABLES
    logs,       \* the logs table: rows in insertion order
    nextId,     \* the AUTOINCREMENT counter of logs.id
    now,        \* the server clock (datetime.utcnow), in ticks
    today,      \* date.today()
    weekend,    \* the weekend_schedule table: rows in insertion order
    sess,       \* per browser session: where its submit handler is, and its payload
    lastOp,     \* the last store call: its arguments and its outcome
    editor,     \* per browser session: the table editor it has open, the frame
                \* the editor was given and the frame the editor returns
    refs,       \* the reference tables: kind -> rows (names) in insertion order
    users,      \* the users table: usernames in insertion order
    wk,         \* per browser session: where its upsert_weekend_assignment call is
    color_hex,  \* the color_hex column of users: username -> color, "" when NULL
    auto,       \* per browser session: where its palette allocation loop is
    ui,         \* per browser session: the form prefill in st.session_state
    cache       \* st.cache_data of the server: the cached log view and thaw-id list

vars == <<logs, nextId, now, today, weekend, sess, lastOp, editor, refs, users, wk, color_hex, auto, ui, cache>>

(***************************************************************************)
(* Bounds of the model.                                                    *)
(***************************************************************************)
MaxLogs == 3
MaxClock == 1
MaxDays == 1

Sessions == {"s1", "s2"}

None == <<>>
Some(v) == <<v>>

Range(f) == {f[i] : i \in DOMAIN f}

(***************************************************************************)
(* Characters and the string functions of Python the code uses.            *)
(***************************************************************************)
LowerLetters ==
    <<"a","b","c","d","e","f","g","h","i","j","k","l","m",
      "n","o","p","q","r","s","t","u","v","w","x","y","z">>
UpperLetters ==
    <<"A","B","C","D","E","F","G","H","I","J","K","L","M",
      "N","O","P","Q","R","S","T","U","V","W","X","Y","Z">>
DigitChars == <<"0","1","2","3","4","5","6","7","8","9">>

\* str.isalnum on one ASCII character
isalnum(ch) == ch \in Range(LowerLetters) \cup Range(UpperLetters) \cup Range(DigitChars)

\* str.upper on one ASCII character
upper(ch) ==
    IF \E i \in 1..26 : LowerLetters[i] = ch
    THEN UpperLetters[CHOOSE i \in 1..26 : LowerLetters[i] = ch]
    ELSE ch

UpperStr(s) == [i \in 1..Len(s) |-> upper(s[i])]

\* str.replace(old, new) for single characters
replace(s, old, new) == [i \in 1..Len(s) |-> IF s[i] = old THEN new ELSE s[i]]

\* str.split(): the maximal runs of non-blank characters, in order
RECURSIVE SplitFrom(_, _, _)
SplitFrom(s, i, cur) ==
    IF i > Len(s) THEN (IF cur = <<>> THEN <<>> ELSE <<cur>>)
    ELSE IF s[i] = " "
         THEN (IF cur = <<>> THEN SplitFrom(s, i + 1, <<>>)
               ELSE <<cur>> \o SplitFrom(s, i + 1, <<>>))
         ELSE SplitFrom(s, i + 1, Append(cur, s[i]))
split(s) == SplitFrom(s, 1, <<>>)

\* the decimal digits of a natural number
RECURSIVE DecimalDigits(_)
DecimalDigits(n) ==
    IF n < 10 THEN <<DigitChars[n + 1]>>
    ELSE DecimalDigits(n \div 10) \o <<DigitChars[(n % 10) + 1]>>

\* format(n, "0<w>d"): zero padded on the left to at least w digits
RECURSIVE ZeroPad(_, _)
ZeroPad(ds, w) == IF Len(ds) >= w THEN ds ELSE ZeroPad(<<"0">> \o ds, w)

\* f"{n:02d}"
Format02d(n) == ZeroPad(DecimalDigits(n), 2)

\* d.strftime("%Y%m%d")
strftime_Ymd(d) ==
    ZeroPad(DecimalDigits(d \div 10000), 4)
        \o ZeroPad(DecimalDigits((d \div 100) % 100), 2)
        \o ZeroPad(DecimalDigits(d % 100), 2)

(***************************************************************************)
(* SQL: s LIKE p. In the pattern "%" stands for any run of characters and  *)
(* "_" for any one character; every other character stands for itself.    *)
(***************************************************************************)
RECURSIVE LikeMatch(_, _)
LikeMatch(s, p) ==
    IF p = <<>> THEN s = <<>>
    ELSE IF Head(p) = "%"
         THEN LikeMatch(s, Tail(p)) \/ (s # <<>> /\ LikeMatch(Tail(s), p))
         ELSE /\ s # <<>>
              /\ (Head(p) = "_" \/ Head(p) = Head(s))
              /\ LikeMatch(Tail(s), Tail(p))

(***************************************************************************)
(* The thaw-id generator (db.py).                                          *)
(***************************************************************************)
CELL == <<"C","E","L","L">>
OP == <<"O","P">>
TH == <<"T","H">>
Dash == <<"-">>

\* _tokenize_name(text, max_len, fallback); max_len = 0 stands for None
tokenize_name(text, max_len, fallback) ==
    LET token == UpperStr(SelectSeq(text, isalnum))
    IN  IF token = <<>> THEN fallback
        ELSE IF max_len # 0 /\ Len(token) > max_len THEN SubSeq(token, 1, max_len)
        ELSE token

\* _operator_initials(name)
operator_initials(name) ==
    IF name = <<>> THEN OP
    ELSE LET parts == split(replace(name, "-", " "))
             firstTwo == SubSeq(parts, 1, IF Len(parts) < 2 THEN Len(parts) ELSE 2)
             joined == UpperStr([i \in 1..Len(firstTwo) |-> firstTwo[i][1]])
         IN  IF parts = <<>> THEN OP
             ELSE IF joined = <<>> THEN OP ELSE joined

\* the prefix f"TH-{day}-{cell_token}-{op_token}"
thaw_prefix(cell_line, operator, d) ==
    TH \o Dash \o strftime_Ymd(d) \o Dash \o tokenize_name(cell_line, 0, CELL)
       \o Dash \o operator_initials(operator)

\* SELECT COUNT(*) FROM logs WHERE thaw_id LIKE prefix || '%'
count_like(rows, prefix) ==
    Cardinality({i \in 1..Len(rows) : LikeMatch(rows[i].thaw_id, prefix \o <<"%">>)})

\* generate_thaw_id(conn, cell_line, operator, d)
generate_thaw_id(rows, cell_line, operator, d) ==
    LET prefix == thaw_prefix(cell_line, operator, d)
        count == count_like(rows, prefix)
    IN  prefix \o Dash \o Format02d(count + 1)

(***************************************************************************)
(* The logs table (db.py init_db). The columns the model keeps; id is the  *)
(* AUTOINCREMENT key, date is NOT NULL.                                    *)
(***************************************************************************)
InsertCols ==
    {"date", "cell_line", "event_type", "passage", "notes", "operator", "thaw_id",
     "assigned_to", "next_action_date", "created_by", "created_at"}
Columns == InsertCols \cup {"id"}
NotNullCols == {"date"}

\* insert_log with the thaw id of a Thawing entry minted by the INSERT itself
insert_log_minting(rows, id, payload) ==
    Append(rows, [c \in Columns |->
        IF c = "id" THEN id
        ELSE IF c = "thaw_id" /\ payload.event_type = "Thawing"
             THEN generate_thaw_id(rows, payload.cell_line, payload.operator, payload.date[1])
             ELSE payload[c]])

\* insert_log(conn, payload): the row the INSERT adds, id drawn from the sequence
insert_log(rows, id, payload) ==
    Append(rows, [c \in Columns |-> IF c = "id" THEN id ELSE payload[c]])

\* the UPDATE without its WHERE clause: every row takes the updates
sql_update_every_row(rows, log_id, updates) ==
    [rows |-> [i \in 1..Len(rows) |->
                 [c \in Columns |-> IF c \in DOMAIN updates THEN updates[c] ELSE rows[i][c]]],
     err |-> "none"]

\* UPDATE logs SET <updates> WHERE id = log_id. The statement is refused as a whole
\* when it names a column the table does not have or would put NULL into a
\* NOT NULL column of a row it matches.
sql_update(rows, log_id, updates) ==
    LET hit == {i \in 1..Len(rows) : rows[i].id = log_id}
        refused ==
            \/ (DOMAIN updates) \ Columns # {}
            \/ hit # {} /\ \E c \in NotNullCols \cap DOMAIN updates : updates[c] = None
    IN  IF refused THEN [rows |-> rows, err |-> "StorageError"]
        ELSE [rows |-> [i \in 1..Len(rows) |->
                          IF i \in hit
                          THEN [c \in Columns |->
                                  IF c \in DOMAIN updates THEN updates[c] ELSE rows[i][c]]
                          ELSE rows[i]],
              err |-> "none"]

\* update_log_fields that also clears next_action_date when it is given notes
update_log_fields_closing(rows, log_id, updates) ==
    [rows |-> [i \in 1..Len(rows) |->
                 IF rows[i].id = log_id
                 THEN [c \in Columns |->
                         IF c \in DOMAIN updates THEN updates[c]
                         ELSE IF c = "next_action_date" /\ "notes" \in DOMAIN updates THEN None
                         ELSE rows[i][c]]
                 ELSE rows[i]],
     err |-> "none"]

\* update_log_fields that leaves next_action_date out when its new value is None
update_log_fields_skipping_none(rows, log_id, updates) ==
    [rows |-> [i \in 1..Len(rows) |->
                 IF rows[i].id = log_id
                 THEN [c \in Columns |->
                         IF c \in DOMAIN updates
                            /\ ~(c = "next_action_date" /\ updates[c] = None)
                         THEN updates[c] ELSE rows[i][c]]
                 ELSE rows[i]],
     err |-> "none"]

\* update_log_fields(conn, log_id, updates): rows after the call, and the exception
\* it raised ("none": it returned)
update_log_fields(rows, log_id, updates) ==
    IF DOMAIN updates = {} THEN [rows |-> rows, err |-> "none"]
    ELSE sql_update(rows, log_id, updates)

\* bulk_update_logs(conn, changes) from item k on: each item is [id, updates];
\* an item with no updates is skipped, an exception ends the loop
RECURSIVE bulk_from(_, _, _)
bulk_from(rows, changes, k) ==
    IF k > Len(changes) THEN [rows |-> rows, err |-> "none"]
    ELSE IF DOMAIN changes[k].updates = {} THEN bulk_from(rows, changes, k + 1)
    ELSE LET r == update_log_fields(rows, changes[k].id, changes[k].updates)
         IN  IF r.err # "none" THEN r ELSE bulk_from(r.rows, changes, k + 1)

bulk_update_logs(rows, changes) == bulk_from(rows, changes, 1)

\* SELECT DISTINCT thaw_id FROM logs WHERE thaw_id IS NOT NULL AND thaw_id <> ''
list_distinct_thaw_ids(rows) ==
    {rows[i].thaw_id : i \in {j \in 1..Len(rows) : rows[j].thaw_id # <<>>}}

\* ORDER BY date DESC, created_at DESC: row a sorts no later than row b
\* (a NULL sorts first in a descending order)
DescLE(x, y) == x = None \/ (y # None /\ x[1] >= y[1])
SortsBefore(a, b) ==
    \/ ~DescLE(b.date, a.date)
    \/ DescLE(a.date, b.date) /\ DescLE(b.date, a.date) /\ DescLE(a.created_at, b.created_at)

\* get_last_log_for_cell_line(conn, cell_line): the rows LIMIT 1 may return
\* (rows that tie on date and created_at come in either order); {} when none
get_last_log_for_cell_line(rows, cell_line) ==
    LET mine == {i \in 1..Len(rows) : rows[i].cell_line = cell_line}
    IN  {rows[i] : i \in {j \in mine : \A k \in mine : SortsBefore(rows[j], rows[k])}}

\* the weekend lookup that takes the latest row up to the date
weekend_duty_up_to_date(sched, d) ==
    LET upto == {i \in 1..Len(sched) : sched[i].date <= d}
        hit == {i \in upto : \A k \in upto : sched[k].date <= sched[i].date}
    IN  IF hit = {} THEN {None}
        ELSE {IF sched[i].assigned_to = Some("") THEN None ELSE sched[i].assigned_to : i \in hit}

\* get_weekend_assignment_for_date / get_cached_weekend_assignment: the values
\* the lookup may return, one per row of the date (the first row found is taken);
\* None when no row has the date or the row has no assignee
weekend_duty_for_date(sched, d) ==
    LET hit == {i \in 1..Len(sched) : sched[i].date = d}
    IN  IF hit = {} THEN {None}
        ELSE {IF sched[i].assigned_to = Some("") THEN None ELSE sched[i].assigned_to : i \in hit}

(***************************************************************************)
(* The entry form's submit handler (app.py add_entry_form).                *)
(***************************************************************************)
NoneLabel == <<"(","n","o","n","e",")">>
Unassigned == "(unassigned)"

\* _is_blank(val)
is_blank(val) == \A i \in 1..Len(val) : val[i] = " "

\* form_ready: "Save Entry" is enabled
form_ready(f) == f.cell_line # <<>> /\ f.event_type # ""

\* the checks before any write without the check of the vessel
form_valid_skipping_vessel(f, day) ==
    /\ ~is_blank(f.cell_line)
    /\ ~is_blank(f.location)
    /\ ~is_blank(f.medium)
    /\ ~is_blank(f.cell_type)
    /\ (f.event_type = "Thawing" => ~is_blank(f.cryo_vial_position))
    /\ (f.event_type # "Thawing" => (f.linked_thaw_id # <<>> /\ f.linked_thaw_id # NoneLabel))
    /\ ~is_blank(f.operator)
    /\ (f.next_action_date # None => f.next_action_date[1] >= day)

\* the checks before any write: required fields, then the next action date
form_valid(f, day) ==
    /\ ~is_blank(f.cell_line)
    /\ ~is_blank(f.vessel)
    /\ ~is_blank(f.location)
    /\ ~is_blank(f.medium)
    /\ ~is_blank(f.cell_type)
    /\ (f.event_type = "Thawing" => ~is_blank(f.cryo_vial_position))
    /\ (f.event_type # "Thawing" => (f.linked_thaw_id # <<>> /\ f.linked_thaw_id # NoneLabel))
    /\ ~is_blank(f.operator)
    /\ (f.next_action_date # None => f.next_action_date[1] >= day)

\* thaw_id_val
thaw_id_val(rows, f) ==
    IF f.event_type = "Thawing"
    THEN generate_thaw_id(rows, f.cell_line, f.operator, f.log_date)
    ELSE IF f.linked_thaw_id # <<>> /\ f.linked_thaw_id # NoneLabel
         THEN f.linked_thaw_id ELSE <<>>

\* split_auto, from the row `last` the form read for the cell line (None: no row)
split_auto(f, last) ==
    IF f.event_type = "Split" /\ last # None /\ last[1].passage # None /\ last[1].passage[1] # 0
    THEN Some(last[1].passage[1] + 1) ELSE None

\* final_passage
final_passage(f, last) ==
    IF f.event_type = "Split" /\ split_auto(f, last) # None THEN split_auto(f, last)
    ELSE IF f.passage_no # 0 THEN Some(f.passage_no) ELSE None

\* resolved_assignee, owner being what the weekend lookup returned
resolved_assignee(f, owner) ==
    LET chosen == IF f.assigned_to = Unassigned THEN None ELSE Some(f.assigned_to)
    IN  IF chosen = None /\ f.next_action_date # None /\ owner # None
        THEN owner
        ELSE chosen

\* payload
form_payload(rows, f, last, owner, clock) ==
    [date |-> Some(f.log_date),
     cell_line |-> f.cell_line,
     event_type |-> f.event_type,
     passage |-> final_passage(f, last),
     notes |-> f.notes,
     operator |-> f.operator,
     thaw_id |-> thaw_id_val(rows, f),
     assigned_to |-> resolved_assignee(f, owner),
     next_action_date |-> f.next_action_date,
     created_by |-> f.operator,
     created_at |-> Some(clock)]

NoPayload ==
    [date |-> None, cell_line |-> <<>>, event_type |-> "", passage |-> None,
     notes |-> "", operator |-> <<>>, thaw_id |-> <<>>, assigned_to |-> None,
     next_action_date |-> None, created_by |-> <<>>, created_at |-> None]

\* the widgets of the entry form before anything was entered
NoForm ==
    [cell_line |-> <<>>, event_type |-> "", operator |-> <<>>, log_date |-> 0,
     passage_no |-> 1, notes |-> "", assigned_to |-> Unassigned,
     next_action_date |-> None, linked_thaw_id |-> <<>>, vessel |-> <<>>,
     location |-> <<>>, medium |-> <<>>, cell_type |-> <<>>, cryo_vial_position |-> <<>>]

\* a session at rest; form, seen and row remember its last submit: the values of
\* the widgets, the number of rows the store held when the handler read it, and
\* the place of the row it inserted
IdleSession == [pc |-> "idle", form |-> NoForm, payload |-> NoPayload, seen |-> 0, row |-> 0]

\* what insert_log returns
insert_log_returns == 0

\* a store call as the caller sees it: err is the exception raised ("none": the
\* call returned), reported the rows its return value names as failed (both
\* update_log_fields and bulk_update_logs return None: no row is named)
Call(op, changes, err) ==
    [op |-> op, changes |-> changes, err |-> err, reported |-> {}, ret |-> None]

NoOp == Call("none", <<>>, "none")

Pending == {s \in Sessions : sess[s].pc = "insert"}

(***************************************************************************)
(* The table editors (app.py, History tab and Weekend Run Sheet). A frame  *)
(* is a sequence of rows, a row a function from column label to cell, a    *)
(* cell a tagged Python value. The frames carry the date and text columns  *)
(* of the model; the numeric columns are left out.                         *)
(***************************************************************************)
Timestamp(d) == <<"Timestamp", d>>
NaT == <<"NaT">>
PyNone == <<"None">>
PyStr(x) == <<"str", x>>
PyInt(n) == <<"int", n>>
PyBool(b) == <<"bool", b>>
isoformat(d) == <<"iso", d>>

\* pd.isna(cell), pd.notna(cell)
isna(cell) == cell \in {NaT, PyNone}
notna(cell) == ~isna(cell)

\* a != b in Python: NaT is unequal to everything, itself and None included
py_ne(a, b) == a = NaT \/ b = NaT \/ a # b

\* pd.to_datetime of a DATE column value
to_datetime(v) == IF v = None THEN NaT ELSE Timestamp(v[1])

\* the cell of column c in pd.DataFrame(rows) for the row r
frame_cell(r, c) ==
    IF c = "id" THEN PyInt(r.id)
    ELSE IF c \in {"date", "next_action_date"} THEN to_datetime(r[c])
    ELSE IF c = "assigned_to" THEN (IF r[c] = None THEN PyNone ELSE PyStr(r[c][1]))
    ELSE PyStr(r[c])

\* the value the UPDATE binds to column c for the Python value v
bind(c, v) ==
    IF c \in {"date", "next_action_date", "assigned_to"}
    THEN (IF v = PyNone THEN None ELSE Some(v[2]))
    ELSE v[2]

\* the orders in which a sort can leave the rows 1..n, given the pairs <<i, j>>
\* of rows where row i may come before row j
sort_orders(n, before) ==
    {p \in [1..n -> 1..n] :
        /\ \A i, j \in 1..n : i # j => p[i] # p[j]
        /\ \A i, j \in 1..n : i < j => <<p[i], p[j]>> \in before}

\* (label, column) pairs of the loop in the "Save history edits" handler
HistoryColumns ==
    <<<<"Date", "date">>, <<"Cell Line", "cell_line">>, <<"Event Type", "event_type">>,
      <<"Notes", "notes">>, <<"Operator", "operator">>, <<"Thaw ID", "thaw_id">>,
      <<"Assigned To", "assigned_to">>, <<"Next Action Date", "next_action_date">>>>

\* the column a label stands for
column_of(cols, l) == (CHOOSE p \in Range(cols) : p[1] = l)[2]

HistoryLabels == {HistoryColumns[i][1] : i \in 1..Len(HistoryColumns)} \cup {"ID", "Mark Done"}

\* sort_values(by=["date", "created_at"], ascending=False): a sorts no later than b
KeyDesc(x, y) == y = None \/ (x # None /\ x[1] >= y[1])
pretty_before(a, b) ==
    \/ ~KeyDesc(b.date, a.date)
    \/ KeyDesc(a.date, b.date) /\ KeyDesc(a.created_at, b.created_at)

\* a row of history_display
history_row(r) ==
    [l \in HistoryLabels |->
        IF l = "ID" THEN frame_cell(r, "id")
        ELSE IF l = "Mark Done" THEN PyBool(isna(frame_cell(r, "next_action_date")))
        ELSE frame_cell(r, column_of(HistoryColumns, l))]

\* the frames history_display can be for the rows the query returned
history_display(rows) ==
    {[k \in 1..Len(rows) |-> history_row(rows[p[k]])] :
        p \in sort_orders(Len(rows), {<<i, j>> \in (1..Len(rows)) \X (1..Len(rows)) :
                                         pretty_before(rows[i], rows[j])})}

\* val and orig_val of the loop, for the label l
history_val(l, row) ==
    IF l = "Assigned To" /\ row[l] \in {PyNone, PyStr(Unassigned)} THEN PyNone
    ELSE IF l \in {"Date", "Next Action Date"}
         THEN (IF notna(row[l]) THEN isoformat(row[l][2]) ELSE PyNone)
         ELSE row[l]

history_orig_val(l, original) ==
    IF l \in {"Date", "Next Action Date"} /\ original[l][1] = "Timestamp"
    THEN isoformat(original[l][2]) ELSE original[l]

\* updates of one edited row against the row of base_lookup with its ID
history_updates(original, row) ==
    LET differs == {p \in Range(HistoryColumns) :
                       py_ne(history_orig_val(p[1], original), history_val(p[1], row))}
        label(c) == (CHOOSE p \in differs : p[2] = c)[1]
        mark_done_flag == row["Mark Done"] = PyBool(TRUE)
        done == mark_done_flag /\ notna(original["Next Action Date"])
    IN  [c \in {p[2] : p \in differs} \cup (IF done THEN {"next_action_date"} ELSE {}) |->
            IF c = "next_action_date" /\ done THEN None
            ELSE bind(c, history_val(label(c), row))]

\* the row of a frame with the given ID cell
loc(frame, id) == frame[CHOOSE k \in 1..Len(frame) : frame[k]["ID"] = id]

\* pending_updates from row k of the edited frame on: the rows whose updates are
\* not empty, in frame order
RECURSIVE pending_from(_, _, _)
pending_from(base, edited, k) ==
    IF k > Len(edited) THEN <<>>
    ELSE LET u == history_updates(loc(base, edited[k]["ID"]), edited[k])
         IN  (IF DOMAIN u = {} THEN <<>> ELSE <<[id |-> edited[k]["ID"][2], updates |-> u]>>)
             \o pending_from(base, edited, k + 1)

pending_updates(base, edited) == pending_from(base, edited, 1)

\* for row_id, updates in pending_updates: update_log_fields(...); an exception
\* ends the loop
RECURSIVE update_pending(_, _, _)
update_pending(rows, pending, k) ==
    IF k > Len(pending) THEN [rows |-> rows, err |-> "none"]
    ELSE LET r == update_log_fields(rows, pending[k].id, pending[k].updates)
         IN  IF r.err # "none" THEN r ELSE update_pending(r.rows, pending, k + 1)

\* columns of run_cols_display the model keeps
RunLabels == {"ID", "Cell Line", "Event", "Mark Done", "Assigned To", "Next Action", "Notes"}

\* the rows of df_tasks: a next action date, today or later
run_rows(rows, day) ==
    SelectSeq(rows, LAMBDA r : r.next_action_date # None /\ r.next_action_date[1] >= day)

\* sort_values(by="next_action_date")
tasks_before(a, b) == a.next_action_date[1] <= b.next_action_date[1]

\* a row of run_cols_display
run_row(r, day) ==
    [l \in RunLabels |->
        IF l = "ID" THEN frame_cell(r, "id")
        ELSE IF l = "Cell Line" THEN frame_cell(r, "cell_line")
        ELSE IF l = "Event" THEN frame_cell(r, "event_type")
        ELSE IF l = "Mark Done" THEN PyBool(r.next_action_date[1] < day)
        ELSE IF l = "Assigned To" THEN frame_cell(r, "assigned_to")
        ELSE IF l = "Next Action" THEN frame_cell(r, "next_action_date")
        ELSE frame_cell(r, "notes")]

run_cols_display(rows, day) ==
    LET tasks == run_rows(rows, day)
    IN  {[k \in 1..Len(tasks) |-> run_row(tasks[p[k]], day)] :
            p \in sort_orders(Len(tasks), {<<i, j>> \in (1..Len(tasks)) \X (1..Len(tasks)) :
                                             tasks_before(tasks[i], tasks[j])})}

\* payload of one edited row of the run sheet, without its id
run_payload(orig, row) ==
    LET assigned == orig["Assigned To"] # row["Assigned To"]
        done == row["Mark Done"] = PyBool(TRUE)
        moved == done \/ orig["Next Action"] # row["Next Action"]
        noted == orig["Notes"] # row["Notes"]
    IN  [c \in (IF assigned THEN {"assigned_to"} ELSE {})
               \cup (IF moved THEN {"next_action_date"} ELSE {})
               \cup (IF noted THEN {"notes"} ELSE {}) |->
            IF c = "assigned_to"
            THEN (IF row["Assigned To"] \in {PyNone, PyStr(""), PyStr(Unassigned)}
                  THEN None ELSE Some(row["Assigned To"][2]))
            ELSE IF c = "next_action_date"
            THEN (IF done \/ isna(row["Next Action"]) THEN None
                  ELSE Some(row["Next Action"][2]))
            ELSE row["Notes"][2]]

\* changes from row k of the edited frame on
RECURSIVE changes_from(_, _, _)
changes_from(base, edited, k) ==
    IF k > Len(edited) THEN <<>>
    ELSE LET u == run_payload(loc(base, edited[k]["ID"]), edited[k])
         IN  (IF DOMAIN u = {} THEN <<>> ELSE <<[id |-> edited[k]["ID"][2], updates |-> u]>>)
             \o changes_from(base, edited, k + 1)

run_changes(base, edited) == changes_from(base, edited, 1)

\* no editor open
NoEditor == [tab |-> "none", base |-> <<>>, edited |-> <<>>]

(***************************************************************************)
(* The reference tables, the users table and the weekend schedule          *)
(* (db.py). A reference table or the users table is the sequence of its    *)
(* names in insertion order; PRIMARY KEY is declared on the name but the   *)
(* store does not enforce it, so a name may occur twice. A store call      *)
(* takes the tables it can reach as one record and returns that record.    *)
(***************************************************************************)
RefKinds == {"cell_line", "event_type", "vessel", "location", "cell_type", "culture_medium"}

\* the rows init_db seeds
SeedRefs ==
    [k \in RefKinds |->
        IF k = "event_type"
        THEN <<<<"O","b","s","e","r","v","a","t","i","o","n">>,
               <<"M","e","d","i","a"," ","C","h","a","n","g","e">>,
               <<"S","p","l","i","t">>,
               <<"T","h","a","w","i","n","g">>,
               <<"C","r","y","o","p","r","e","s","e","r","v","a","t","i","o","n">>,
               <<"O","t","h","e","r">>>>
        ELSE IF k = "cell_type"
        THEN <<<<"i","P","S","C">>, <<"N","P","C">>,
               <<"C","a","r","d","i","o","m","y","o","c","y","t","e">>>>
        ELSE IF k = "culture_medium"
        THEN <<<<"S","t","e","m","F","l","e","x">>, <<"m","T","e","S","R","1">>, <<"E","8">>>>
        ELSE <<>>]

\* str.strip(): leading and trailing blanks removed
RECURSIVE lstrip(_)
lstrip(s) == IF s # <<>> /\ Head(s) = " " THEN lstrip(Tail(s)) ELSE s

RECURSIVE rstrip(_)
rstrip(s) == IF s # <<>> /\ s[Len(s)] = " " THEN rstrip(SubSeq(s, 1, Len(s) - 1)) ELSE s

strip(s) == rstrip(lstrip(s))

\* the number of rows of a table that hold the name
count_name(table, name) == Cardinality({i \in 1..Len(table) : table[i] = name})

\* INSERT INTO t (name, ...) VALUES (v), whatever the table holds
insert_unconditionally(table, value) == Append(table, value)

\* INSERT INTO t (name, ...) SELECT v WHERE NOT EXISTS (SELECT 1 FROM t WHERE name = v)
insert_where_not_exists(table, value) ==
    IF count_name(table, value) > 0 THEN table ELSE Append(table, value)

\* DELETE FROM t WHERE name = v
delete_where_name(table, value) == SelectSeq(table, LAMBDA n : n # value)

\* UPDATE t SET name = new WHERE name = old
update_name(table, old, new) ==
    [i \in 1..Len(table) |-> IF table[i] = old THEN new ELSE table[i]]

\* the tables as one record; err is the exception the call raised
Tables(l, r, u) == [logs |-> l, refs |-> r, users |-> u, err |-> "none"]

\* add_ref_value(conn, kind, name)
add_ref_value(db, kind, name) ==
    IF kind \notin RefKinds THEN [db EXCEPT !.err = "ValueError"]
    ELSE [db EXCEPT !.refs[kind] = insert_where_not_exists(@, strip(name))]

\* delete_ref_value(conn, kind, name)
delete_ref_value(db, kind, name) ==
    IF kind \notin RefKinds THEN [db EXCEPT !.err = "ValueError"]
    ELSE [db EXCEPT !.refs[kind] = delete_where_name(@, strip(name))]

\* rename_ref_value that also rewrites the cell line of the log entries
rename_ref_value_cascading(db, kind, old_name, new_name) ==
    IF kind \notin RefKinds THEN [db EXCEPT !.err = "ValueError"]
    ELSE [db EXCEPT !.refs[kind] = update_name(@, strip(old_name), strip(new_name)),
                    !.logs = [i \in 1..Len(@) |->
                                 IF kind = "cell_line" /\ @[i].cell_line = strip(old_name)
                                 THEN [@[i] EXCEPT !.cell_line = strip(new_name)]
                                 ELSE @[i]]]

\* rename_ref_value(conn, kind, old_name, new_name)
rename_ref_value(db, kind, old_name, new_name) ==
    IF kind \notin RefKinds THEN [db EXCEPT !.err = "ValueError"]
    ELSE [db EXCEPT !.refs[kind] = update_name(@, strip(old_name), strip(new_name))]

\* get_or_create_user(conn, username, ...): the row is inserted when the SELECT
\* finds none
get_or_create_user(db, username) ==
    IF strip(username) = <<>> THEN [db EXCEPT !.err = "ValueError"]
    ELSE [db EXCEPT !.users = insert_where_not_exists(@, strip(username))]

\* delete_user(conn, username)
delete_user(db, username) ==
    IF strip(username) = <<>> THEN db
    ELSE [db EXCEPT !.users = delete_where_name(@, strip(username))]

\* UPDATE weekend_schedule SET assigned_to = a, ... WHERE date = d: the rows after
\* the statement (cur.rowcount is the number of rows with the date)
weekend_update(sched, d, a) ==
    [i \in 1..Len(sched) |-> IF sched[i].date = d THEN [sched[i] EXCEPT !.assigned_to = a]
                             ELSE sched[i]]

weekend_rowcount(sched, d) == Cardinality({i \in 1..Len(sched) : sched[i].date = d})

\* INSERT INTO weekend_schedule (date, assigned_to, ...) VALUES (d, a, ...)
weekend_insert(sched, d, a) == Append(sched, [date |-> d, assigned_to |-> a])

\* delete_weekend_assignment(conn, date_str)
delete_weekend_assignment(sched, d) == SelectSeq(sched, LAMBDA r : r.date # d)

\* the code point of a character of the names in use
ord(ch) ==
    IF ch \in Range(DigitChars) THEN 47 + (CHOOSE i \in 1..10 : DigitChars[i] = ch)
    ELSE IF ch \in Range(UpperLetters) THEN 64 + (CHOOSE i \in 1..26 : UpperLetters[i] = ch)
    ELSE IF ch \in Range(LowerLetters) THEN 96 + (CHOOSE i \in 1..26 : LowerLetters[i] = ch)
    ELSE IF ch = "_" THEN 95
    ELSE IF ch = "-" THEN 45
    ELSE 32

\* a < b in the binary collation of ORDER BY
RECURSIVE str_lt(_, _)
str_lt(a, b) ==
    IF b = <<>> THEN FALSE
    ELSE IF a = <<>> THEN TRUE
    ELSE IF Head(a) # Head(b) THEN ord(Head(a)) < ord(Head(b))
    ELSE str_lt(Tail(a), Tail(b))

\* the names of a set in ascending order
RECURSIVE order_by(_)
order_by(names) ==
    IF names = {} THEN <<>>
    ELSE LET least == CHOOSE n \in names : \A o \in names \ {n} : str_lt(n, o)
         IN  <<least>> \o order_by(names \ {least})

COLOR_PALETTE ==
    <<"#4a90e2", "#7ed321", "#f5a623", "#d0021b", "#9013fe",
      "#50e3c2", "#b8e986", "#f8e71c", "#8b572a", "#417505">>

DEFAULT_USER_COLOR == "#4a90e2"

\* the color_hex column once the users table holds `rows`: a row that stays keeps
\* its color, a row that was inserted has `color`
user_colors(cols, rows, color) ==
    [u \in Range(rows) |-> IF u \in DOMAIN cols THEN cols[u] ELSE color]

\* list_users_with_colors(conn): SELECT username, ..., color_hex FROM users ORDER BY
\* username, as rows <<username, color_hex>>
list_users_with_colors(rows, cols) ==
    LET names == order_by(Range(rows))
    IN  [i \in 1..Len(names) |-> <<names[i], cols[names[i]]>>]

\* update_user_color(conn, username, color_hex): UPDATE users SET color_hex = %s
\* WHERE username = %s
update_user_color(cols, username, color) ==
    IF strip(username) = <<>> THEN cols
    ELSE [u \in DOMAIN cols |-> IF u = strip(username) THEN color ELSE cols[u]]

\* str.lower / LOWER on one ASCII character, and on a text
lower(ch) ==
    IF \E i \in 1..26 : UpperLetters[i] = ch
    THEN LowerLetters[CHOOSE i \in 1..26 : UpperLetters[i] = ch]
    ELSE ch

LowerStr(s) == [i \in 1..Len(s) |-> lower(s[i])]

\* the keyword arguments of query_logs left at None
NoFilters ==
    [user |-> <<>>, event_type |-> "", thaw_id |-> <<>>, start_date |-> None,
     end_date |-> None, cell_line_contains |-> <<>>]

\* the WHERE clause query_logs builds, on one row (a comparison with NULL is not true)
query_where(r, q) ==
    /\ q.user # <<>> => r.created_by = q.user
    /\ (q.event_type # "" /\ q.event_type # "(any)") => r.event_type = q.event_type
    /\ q.thaw_id # <<>> => r.thaw_id = q.thaw_id
    /\ q.start_date # None => (r.date # None /\ r.date[1] >= q.start_date[1])
    /\ q.end_date # None => (r.date # None /\ r.date[1] <= q.end_date[1])
    /\ q.cell_line_contains # <<>>
         => LikeMatch(LowerStr(r.cell_line),
                      <<"%">> \o LowerStr(q.cell_line_contains) \o <<"%">>)

\* ORDER BY date ASC, created_at ASC: row a sorts no later than row b
\* (a NULL sorts last in an ascending order)
AscLE(x, y) == y = None \/ (x # None /\ x[1] <= y[1])
query_before(a, b) ==
    \/ ~AscLE(b.date, a.date)
    \/ AscLE(a.date, b.date) /\ AscLE(a.created_at, b.created_at)

\* query_logs(conn, **filters): the lists the query can return (rows that tie on
\* date and created_at come in either order)
query_logs(rows, q) ==
    LET hit == SelectSeq(rows, LAMBDA r : query_where(r, q))
    IN  {[k \in 1..Len(hit) |-> hit[p[k]]] :
            p \in sort_orders(Len(hit), {<<i, j>> \in (1..Len(hit)) \X (1..Len(hit)) :
                                            query_before(hit[i], hit[j])})}

\* predict_next_passage that takes the row inserted last for the cell line
predict_next_passage_of_newest_row(rows, cell_line) ==
    LET mine == {i \in 1..Len(rows) : rows[i].cell_line = cell_line}
        last == rows[CHOOSE i \in mine : \A k \in mine : k <= i]
    IN  IF mine = {} THEN {None}
        ELSE {IF last.passage # None /\ last.passage[1] > 0
              THEN Some(last.passage[1] + 1) ELSE None}

\* predict_next_passage(conn, cell_line): the values the call can return, one per
\* row get_last_log_for_cell_line can return
predict_next_passage(rows, cell_line) ==
    IF get_last_log_for_cell_line(rows, cell_line) = {} THEN {None}
    ELSE {IF last.passage # None /\ last.passage[1] > 0
          THEN Some(last.passage[1] + 1) ELSE None :
             last \in get_last_log_for_cell_line(rows, cell_line)}

\* the rows among `pool` that ORDER BY date DESC, created_at DESC can put first
first_desc(rows, pool) == {i \in pool : \A k \in pool : SortsBefore(rows[i], rows[k])}

\* get_last_thaw_id without the test of the event type
get_last_thaw_id_of_any_event(rows, cell_line) ==
    LET mine == {i \in 1..Len(rows) : rows[i].cell_line = cell_line}
        empty == {i \in mine : rows[i].thaw_id = <<>>}
    IN  UNION {IF mine \ null = {} THEN {None}
               ELSE {IF rows[i].thaw_id # <<>> THEN Some(rows[i].thaw_id) ELSE None :
                        i \in first_desc(rows, mine \ null)} :
               null \in SUBSET empty}

\* get_last_thaw_id(conn, cell_line): the values the call can return. The row is
\* the first in ORDER BY date DESC, created_at DESC of the rows WHERE cell_line = %s
\* AND event_type = 'Thawing' AND thaw_id IS NOT NULL, and its thaw_id is returned
\* unless it is ''. A thaw_id <<>> stands for NULL and for '': `null` are the rows
\* that hold NULL
get_last_thaw_id(rows, cell_line) ==
    LET mine == {i \in 1..Len(rows) :
                    rows[i].cell_line = cell_line /\ rows[i].event_type = "Thawing"}
        empty == {i \in mine : rows[i].thaw_id = <<>>}
    IN  UNION {IF mine \ null = {} THEN {None}
               ELSE {IF rows[i].thaw_id # <<>> THEN Some(rows[i].thaw_id) ELSE None :
                        i \in first_desc(rows, mine \ null)} :
               null \in SUBSET empty}

\* the characters of the event types in use ("SPLIT": an event type added in
\* Settings); an event type that is not listed has none
EventSpelling ==
    {<<"Thawing", <<"T", "h", "a", "w", "i", "n", "g">>>>,
     <<"Observation", <<"O", "b", "s", "e", "r", "v", "a", "t", "i", "o", "n">>>>,
     <<"Media Change", <<"M", "e", "d", "i", "a", " ", "C", "h", "a", "n", "g", "e">>>>,
     <<"Split", <<"S", "p", "l", "i", "t">>>>,
     <<"Cryopreservation", <<"C", "r", "y", "o", "p", "r", "e", "s", "e", "r", "v", "a", "t", "i", "o", "n">>>>,
     <<"Other", <<"O", "t", "h", "e", "r">>>>,
     <<"SPLIT", <<"S", "P", "L", "I", "T">>>>}

spell(event_type) ==
    IF \E p \in EventSpelling : p[1] = event_type
    THEN (CHOOSE p \in EventSpelling : p[1] = event_type)[2]
    ELSE <<>>

\* mapping of suggest_next_event
NextEventMapping ==
    {<<<<"t", "h", "a", "w", "i", "n", "g">>, "Observation">>,
     <<<<"o", "b", "s", "e", "r", "v", "a", "t", "i", "o", "n">>, "Media Change">>,
     <<<<"m", "e", "d", "i", "a", " ", "c", "h", "a", "n", "g", "e">>, "Observation">>,
     <<<<"s", "p", "l", "i", "t">>, "Observation">>,
     <<<<"c", "r", "y", "o", "p", "r", "e", "s", "e", "r", "v", "a", "t", "i", "o", "n">>, "Observation">>}

\* mapping.get(key)
mapping_get(mapping, key) ==
    IF \E p \in mapping : p[1] = key THEN Some((CHOOSE p \in mapping : p[1] = key)[2])
    ELSE None

\* suggest_next_event that looks the event type up as it is stored
suggest_next_event_as_stored(rows, cell_line) ==
    IF get_last_log_for_cell_line(rows, cell_line) = {} THEN {None}
    ELSE {mapping_get(NextEventMapping, spell(last.event_type)) :
             last \in get_last_log_for_cell_line(rows, cell_line)}

\* suggest_next_event(conn, cell_line): the values the call can return, one per
\* row get_last_log_for_cell_line can return
suggest_next_event(rows, cell_line) ==
    IF get_last_log_for_cell_line(rows, cell_line) = {} THEN {None}
    ELSE {mapping_get(NextEventMapping, LowerStr(spell(last.event_type))) :
             last \in get_last_log_for_cell_line(rows, cell_line)}

\* list_distinct_values without the cell line in the WHERE clause
list_distinct_values_of_all_lines(rows, column, cell_line, limit) ==
    LET pool == {i \in 1..Len(rows) : rows[i][column] # <<>>}
        vals == order_by({rows[i][column] : i \in pool})
        cnt(v) == Cardinality({i \in pool : rows[i][column] = v})
        n == Len(vals)
    IN  {[k \in 1..(IF limit < n THEN limit ELSE n) |-> vals[p[k]]] :
            p \in sort_orders(n, {<<i, j>> \in (1..n) \X (1..n) : cnt(vals[i]) >= cnt(vals[j])})}

\* list_distinct_values(conn, column, cell_line=, limit=) for a text column: the
\* lists the query can return. WHERE column IS NOT NULL AND column <> '' [AND
\* cell_line = %s] GROUP BY column ORDER BY cnt DESC LIMIT limit; groups of one
\* count come in either order. cell_line <<>> stands for None
list_distinct_values(rows, column, cell_line, limit) ==
    LET pool == {i \in 1..Len(rows) :
                    /\ rows[i][column] # <<>>
                    /\ (cell_line # <<>> /\ column # "cell_line") => rows[i].cell_line = cell_line}
        vals == order_by({rows[i][column] : i \in pool})
        cnt(v) == Cardinality({i \in pool : rows[i][column] = v})
        n == Len(vals)
    IN  {[k \in 1..(IF limit < n THEN limit ELSE n) |-> vals[p[k]]] :
            p \in sort_orders(n, {<<i, j>> \in (1..n) \X (1..n) : cnt(vals[i]) >= cnt(vals[j])})}

\* top_values(conn, column, cell_line=, limit=)
top_values(rows, column, cell_line, limit) == list_distinct_values(rows, column, cell_line, limit)

\* get_latest_log_for_thaw: the rows that ORDER BY date DESC, created_at DESC LIMIT 1
\* can return of the rows WHERE thaw_id = %s; no row (None) for an empty thaw_id
get_latest_log_for_thaw(rows, thaw_id) ==
    IF thaw_id = <<>> THEN {}
    ELSE {rows[i] : i \in first_desc(rows, {k \in 1..Len(rows) : rows[k].thaw_id = thaw_id})}

\* the options of the "Link Thaw ID" select box
linked_options(rows) == {NoneLabel} \cup list_distinct_thaw_ids(rows)

\* st.session_state of the entry form after the first script run on an empty store:
\* no active prefill (active_form_prefill_meta), none queued (pending_form_prefill
\* with its meta), and the Event Type select box on the first of the event types
\* in ORDER BY name
NoPrefill == [active |-> None, pending |-> None, event_type_select |-> "Cryopreservation"]

\* the value of the "Link Thaw ID" select box in a run with the form values f: the
\* box is drawn only for an event other than Thawing, so after a run that drew the
\* form for Thawing it holds options[idx], the latest thaw of the cell line when
\* that is among the thaw ids and "(none)" otherwise; after any other run it holds
\* the option the user chose
linked_thaw_select(rows, state, f) ==
    IF state.event_type_select = "Thawing"
    THEN {IF l # None /\ l[1] \in list_distinct_thaw_ids(rows) THEN l[1] ELSE NoneLabel :
             l \in get_last_thaw_id(rows, f.cell_line)}
    ELSE linked_options(rows)

\* the linked thaw block of the form queues a prefill and reruns (app.py 760-771):
\* a thaw id is chosen for an event other than Thawing, it is not the label of the
\* active thaw prefill, and the thaw has an entry
prefill_reruns(rows, state, f) ==
    /\ f.event_type # "Thawing"
    /\ f.linked_thaw_id # <<>> /\ f.linked_thaw_id # NoneLabel
    /\ state.active # Some(f.linked_thaw_id)
    /\ get_latest_log_for_thaw(rows, f.linked_thaw_id) # {}

\* session_state after the linked thaw block in a run that goes on to line 775:
\* _clear_active_form_prefill(kind="thaw") for Thawing and for "(none)"
prefill_kept(state, f) ==
    [active |-> IF f.event_type = "Thawing" \/ f.linked_thaw_id \in {<<>>, NoneLabel}
                THEN None ELSE state.active,
     pending |-> None,
     event_type_select |-> f.event_type]

\* _queue_form_prefill(latest_record, meta={"kind": "thaw", "label": linked_thaw_id})
queue_form_prefill(state, f, latest_record) ==
    [state EXCEPT !.pending = Some([payload |-> latest_record, label |-> f.linked_thaw_id]),
                  !.event_type_select = f.event_type]

\* the run that st.rerun() starts: _consume_pending_form_prefill applies the payload
\* (the event type of the record goes to the Event Type select box) and makes the
\* meta active; then the form is drawn, and for Thawing its linked thaw block
\* clears the active thaw prefill again
consume_pending_form_prefill(state) ==
    LET payload == state.pending[1].payload
        event_type == IF payload.event_type # "" THEN payload.event_type
                      ELSE state.event_type_select
    IN  [active |-> IF event_type = "Thawing" THEN None ELSE Some(state.pending[1].label),
         pending |-> None,
         event_type_select |-> event_type]

\* st.cache_data with nothing cached: _load_logs_cached (for the call without
\* filters) and _cached_thaw_ids hold no value
NoCache == [logs |-> None, thaw_ids |-> None]

\* invalidate_logs_cache(): both caches cleared
invalidate_logs_cache(c) == [c EXCEPT !.logs = None, !.thaw_ids = None]

\* no palette allocation in progress
NoAuto == [pc |-> "idle", rows |-> <<>>, auto_idx |-> 0]

\* no upsert_weekend_assignment call in progress
NoUpsert == [pc |-> "idle", dates |-> <<>>, assigned_to |-> None]

Init ==
    /\ logs = <<>>
    /\ nextId = 1
    /\ now = 0
    /\ today = 20240301
    /\ weekend = <<>>
    /\ sess = [s \in Sessions |-> IdleSession]
    /\ lastOp = NoOp
    /\ editor = [s \in Sessions |-> NoEditor]
    /\ refs = SeedRefs
    /\ users = <<>>
    /\ wk = [s \in Sessions |-> NoUpsert]
    /\ color_hex = <<>>
    /\ auto = [s \in Sessions |-> NoAuto]
    /\ ui = [s \in Sessions |-> NoPrefill]
    /\ cache = NoCache

\* "Save Entry" up to the payload: validation, the reads (the last row of the cell
\* line, the count query of generate_thaw_id, the weekend lookup), the payload
submit_handler(s, f) ==
    /\ sess[s].pc = "idle"
    /\ form_ready(f)
    /\ form_valid(f, today)
    /\ \E last \in (IF get_last_log_for_cell_line(logs, f.cell_line) = {} THEN {None}
                    ELSE {Some(r) : r \in get_last_log_for_cell_line(logs, f.cell_line)}) :
       \E owner \in (IF f.next_action_date = None THEN {None}
                     ELSE weekend_duty_for_date(weekend, f.next_action_date[1])) :
           sess' = [sess EXCEPT ![s] =
                      [pc |-> "insert",
                       form |-> f,
                       payload |-> form_payload(logs, f, last, owner, now),
                       seen |-> Len(logs),
                       row |-> 0]]
    /\ lastOp' = Call("read", <<>>, "none")
    /\ UNCHANGED <<logs, nextId, now, today, weekend, editor, refs, users, wk, color_hex, auto, cache>>

\* "Save Entry" up to the payload, in a run that leaves the prefill as it is
SubmitBuild(s, f) == submit_handler(s, f) /\ UNCHANGED ui

\* "Save Entry" on a form that fails a check: st.error and st.stop
submit_rejected(s, f) ==
    /\ sess[s].pc = "idle"
    /\ form_ready(f)
    /\ ~form_valid(f, today)
    /\ sess' = [sess EXCEPT ![s].form = f]
    /\ lastOp' = Call("rejected", <<>>, "none")
    /\ UNCHANGED <<logs, nextId, now, today, weekend, editor, refs, users, wk, color_hex, auto, cache>>

\* the rejected "Save Entry", in a run that leaves the prefill as it is
SubmitRejected(s, f) == submit_rejected(s, f) /\ UNCHANGED ui

\* "Save Entry" from insert_log on
SubmitInsert(s) ==
    /\ sess[s].pc = "insert"
    /\ logs' = insert_log(logs, nextId, sess[s].payload)
    /\ nextId' = nextId + 1
    /\ sess' = [sess EXCEPT ![s].pc = "idle", ![s].row = Len(logs) + 1]
    /\ lastOp' = [Call("insert", <<>>, "none") EXCEPT !.ret = Some(insert_log_returns)]
    /\ cache' = invalidate_logs_cache(cache)
    /\ UNCHANGED <<now, today, weekend, editor, refs, users, wk, color_hex, auto, ui>>

\* a caller of update_log_fields(conn, log_id, updates)
Patch(log_id, updates) ==
    /\ logs' = update_log_fields(logs, log_id, updates).rows
    /\ lastOp' = Call("patch", <<[id |-> log_id, updates |-> updates]>>,
                       update_log_fields(logs, log_id, updates).err)
    /\ UNCHANGED <<nextId, now, today, weekend, sess, editor, refs, users, wk, color_hex, auto, ui, cache>>

\* a caller of bulk_update_logs(conn, changes)
BulkPatch(changes) ==
    /\ logs' = bulk_update_logs(logs, changes).rows
    /\ lastOp' = Call("bulk", changes, bulk_update_logs(logs, changes).err)
    /\ UNCHANGED <<nextId, now, today, weekend, sess, editor, refs, users, wk, color_hex, auto, ui, cache>>

\* the clock advances
Tick ==
    /\ now < MaxClock
    /\ now' = now + 1
    /\ UNCHANGED <<logs, nextId, today, weekend, sess, lastOp, editor, refs, users, wk, color_hex, auto, ui, cache>>

\* the History tab renders: the rows are read and the editor is given the frame
OpenHistory(s) ==
    /\ logs # <<>>
    /\ \E frame \in history_display(logs) :
           editor' = [editor EXCEPT ![s] = [tab |-> "history", base |-> frame, edited |-> frame]]
    /\ lastOp' = Call("read", <<>>, "none")
    /\ UNCHANGED <<logs, nextId, now, today, weekend, sess, refs, users, wk, color_hex, auto, ui, cache>>

\* the Weekend Run Sheet renders
OpenRunSheet(s) ==
    /\ run_rows(logs, today) # <<>>
    /\ \E frame \in run_cols_display(logs, today) :
           editor' = [editor EXCEPT ![s] = [tab |-> "run", base |-> frame, edited |-> frame]]
    /\ lastOp' = Call("read", <<>>, "none")
    /\ UNCHANGED <<logs, nextId, now, today, weekend, sess, refs, users, wk, color_hex, auto, ui, cache>>

\* cells of the editor's frame that differ from the frame it was given
edits(s) ==
    {<<k, l>> \in (1..Len(editor[s].base)) \X (HistoryLabels \cup RunLabels) :
        l \in DOMAIN editor[s].base[k] /\ editor[s].edited[k][l] # editor[s].base[k][l]}

\* the user sets the cell of column l in row k of the open editor (ID, Cell Line
\* and Event are disabled in the run sheet, ID in the history table)
EditCell(s, k, l, cell) ==
    /\ editor[s].tab # "none"
    /\ k \in 1..Len(editor[s].edited)
    /\ l \in DOMAIN editor[s].edited[k]
    /\ l \notin {"ID", "Cell Line", "Event"}
    /\ editor[s].edited[k][l] # cell
    /\ editor' = [editor EXCEPT ![s].edited[k][l] = cell]
    /\ UNCHANGED <<logs, nextId, now, today, weekend, sess, lastOp, refs, users, wk, color_hex, auto, ui, cache>>

\* "Save history edits"
SaveHistory(s) ==
    /\ editor[s].tab = "history"
    /\ LET pending == pending_updates(editor[s].base, editor[s].edited)
           r == update_pending(logs, pending, 1)
       IN  /\ logs' = r.rows
           /\ lastOp' = Call("history", pending, r.err)
           /\ cache' = IF r.err = "none" /\ pending # <<>>
                       THEN invalidate_logs_cache(cache) ELSE cache
    /\ editor' = [editor EXCEPT ![s] = NoEditor]
    /\ UNCHANGED <<nextId, now, today, weekend, sess, refs, users, wk, color_hex, auto, ui>>

\* "Save updates" of the run sheet
SaveRunSheet(s) ==
    /\ editor[s].tab = "run"
    /\ LET ch == run_changes(editor[s].base, editor[s].edited)
           r == IF ch = <<>> THEN [rows |-> logs, err |-> "none"]
                ELSE bulk_update_logs(logs, ch)
       IN  /\ logs' = r.rows
           /\ lastOp' = Call("run", ch, r.err)
           /\ cache' = IF r.err = "none" /\ ch # <<>>
                       THEN invalidate_logs_cache(cache) ELSE cache
    /\ editor' = [editor EXCEPT ![s] = NoEditor]
    /\ UNCHANGED <<nextId, now, today, weekend, sess, refs, users, wk, color_hex, auto, ui>>

\* a call of a reference or users table function returned r: the tables it left
Returned(op, args, r) ==
    /\ logs' = r.logs
    /\ refs' = r.refs
    /\ users' = r.users
    /\ color_hex' = user_colors(color_hex, r.users, "")
    /\ lastOp' = Call(op, <<args>>, r.err)
    /\ UNCHANGED <<nextId, now, today, weekend, sess, editor, wk, auto, ui, cache>>

\* Settings, "Add": a blank name is refused with a warning
AddRef(kind, name) ==
    /\ ~is_blank(name)
    /\ Returned("add_ref", [kind |-> kind, name |-> name],
                add_ref_value(Tables(logs, refs, users), kind, strip(name)))

\* Settings, "Rename": the old name is picked from the values of the table
RenameRef(kind, old_val, new_name) ==
    /\ count_name(refs[kind], old_val) > 0
    /\ ~is_blank(new_name)
    /\ Returned("rename_ref", [kind |-> kind, name |-> old_val, new_name |-> new_name],
                rename_ref_value(Tables(logs, refs, users), kind, old_val, new_name))

\* Settings, "Delete", confirmed: the name is picked from the values of the table
DeleteRef(kind, del_val) ==
    /\ count_name(refs[kind], del_val) > 0
    /\ Returned("delete_ref", [kind |-> kind, name |-> del_val],
                delete_ref_value(Tables(logs, refs, users), kind, del_val))

\* Settings, "Add Operator", the color picker left at its value "#4a90e2": a blank
\* username is refused with a warning; get_or_create_user inserts the row with the
\* color or, the row being there with another color, sets the color
AddOperator(new_username) ==
    /\ ~is_blank(new_username)
    /\ LET r == get_or_create_user(Tables(logs, refs, users), strip(new_username))
       IN  /\ logs' = r.logs
           /\ refs' = r.refs
           /\ users' = r.users
           /\ color_hex' = update_user_color(user_colors(color_hex, r.users, DEFAULT_USER_COLOR),
                                             new_username, DEFAULT_USER_COLOR)
           /\ lastOp' = Call("add_user", <<[name |-> new_username]>>, r.err)
    /\ UNCHANGED <<nextId, now, today, weekend, sess, editor, wk, auto, ui, cache>>

\* a read of the store returned ret; reads change nothing
Read(op, args, ret) ==
    /\ lastOp' = [Call(op, <<args>>, "none") EXCEPT !.ret = Some(ret)]
    /\ UNCHANGED <<logs, nextId, now, today, weekend, sess, editor, refs, users, wk, color_hex, auto, ui, cache>>

\* query_logs is called with the filters q
QueryLogs(q) == \E ret \in query_logs(logs, q) : Read("query_logs", q, ret)

\* predict_next_passage is called for a cell line
PredictNextPassage(cell_line) ==
    \E ret \in predict_next_passage(logs, cell_line) :
        Read("predict_next_passage", [cell_line |-> cell_line], ret)

\* get_last_thaw_id is called for a cell line
LastThawId(cell_line) ==
    \E ret \in get_last_thaw_id(logs, cell_line) :
        Read("get_last_thaw_id", [cell_line |-> cell_line], ret)

\* suggest_next_event is called for a cell line
SuggestNextEvent(cell_line) ==
    \E ret \in suggest_next_event(logs, cell_line) :
        Read("suggest_next_event", [cell_line |-> cell_line], ret)

\* the weekend lookup is called for a date
WeekendDuty(d) ==
    \E ret \in weekend_duty_for_date(weekend, d) : Read("weekend_duty", [date |-> d], ret)

\* top_values is called
TopValues(column, cell_line, limit) ==
    \E ret \in top_values(logs, column, cell_line, limit) :
        Read("top_values", [column |-> column, cell_line |-> cell_line, limit |-> limit], ret)

\* get_or_create_user(conn, username) with color_hex left at its default None:
\* a row without a color
CreateUser(username) ==
    /\ ~is_blank(username)
    /\ Returned("create_user", [name |-> username],
                get_or_create_user(Tables(logs, refs, users), username))

\* Settings, "Save color": the operator is picked from the rows of the table
SaveColor(color_user, updated_color) ==
    /\ count_name(users, color_user) > 0
    /\ color_hex' = update_user_color(color_hex, color_user, updated_color)
    /\ lastOp' = Call("save_color", <<[name |-> color_user, color |-> updated_color]>>, "none")
    /\ UNCHANGED <<logs, nextId, now, today, weekend, sess, editor, refs, users, wk, auto, ui, cache>>

\* a script run reaches the palette allocation: the rows of users are read
AutoRead(s) ==
    /\ auto[s].pc = "idle"
    /\ users # <<>>
    /\ auto' = [auto EXCEPT ![s] = [pc |-> "loop",
                                    rows |-> list_users_with_colors(users, color_hex),
                                    auto_idx |-> 0]]
    /\ lastOp' = Call("read", <<>>, "none")
    /\ UNCHANGED <<logs, nextId, now, today, weekend, sess, editor, refs, users, wk, color_hex, ui, cache>>

\* the loop of the palette allocation takes its next row: a row read without a
\* color is given the next palette color by update_user_color
AutoStep(s) ==
    /\ auto[s].pc = "loop"
    /\ LET row == Head(auto[s].rows)
           rest == Tail(auto[s].rows)
           auto_color == COLOR_PALETTE[(auto[s].auto_idx % Len(COLOR_PALETTE)) + 1]
       IN  IF row[2] # ""
           THEN /\ auto' = [auto EXCEPT ![s] = IF rest = <<>> THEN NoAuto
                                                ELSE [@ EXCEPT !.rows = rest]]
                /\ lastOp' = Call("read", <<>>, "none")
                /\ UNCHANGED color_hex
           ELSE /\ auto' = [auto EXCEPT ![s] =
                               IF rest = <<>> THEN NoAuto
                               ELSE [@ EXCEPT !.rows = rest, !.auto_idx = @ + 1]]
                /\ color_hex' = update_user_color(color_hex, row[1], auto_color)
                /\ lastOp' = Call("auto_color", <<[name |-> row[1], color |-> auto_color]>>, "none")
    /\ UNCHANGED <<logs, nextId, now, today, weekend, sess, editor, refs, users, wk, ui, cache>>

\* Settings, "Delete Operator", confirmed
DeleteOperator(del_op) ==
    /\ count_name(users, del_op) > 0
    /\ Returned("delete_user", [name |-> del_op],
                delete_user(Tables(logs, refs, users), del_op))

\* "Save weekend assignment": upsert_weekend_assignment is entered with the dates
\* of the range and the operator picked
UpsertCall(s, dates, assigned_to) ==
    /\ wk[s].pc = "idle"
    /\ dates # <<>>
    /\ wk' = [wk EXCEPT ![s] = [pc |-> "update", dates |-> dates, assigned_to |-> assigned_to]]
    /\ lastOp' = Call("read", <<>>, "none")
    /\ UNCHANGED <<logs, nextId, now, today, weekend, sess, editor, refs, users, color_hex, auto, ui, cache>>

\* the loop of upsert_weekend_assignment goes to its next date, or returns
upsert_next(w) ==
    IF Len(w.dates) > 1 THEN [w EXCEPT !.pc = "update", !.dates = Tail(w.dates)]
    ELSE NoUpsert

\* the UPDATE of the date at hand; on rowcount 0 the INSERT is next
UpsertUpdate(s) ==
    /\ wk[s].pc = "update"
    /\ weekend' = weekend_update(weekend, Head(wk[s].dates), wk[s].assigned_to)
    /\ wk' = [wk EXCEPT ![s] = IF weekend_rowcount(weekend, Head(wk[s].dates)) = 0
                                THEN [wk[s] EXCEPT !.pc = "insert"]
                                ELSE upsert_next(wk[s])]
    /\ lastOp' = Call("weekend_update",
                       <<[date |-> Head(wk[s].dates), assigned_to |-> wk[s].assigned_to]>>, "none")
    /\ UNCHANGED <<logs, nextId, now, today, sess, editor, refs, users, color_hex, auto, ui, cache>>

\* the INSERT of the date at hand
UpsertInsert(s) ==
    /\ wk[s].pc = "insert"
    /\ weekend' = weekend_insert(weekend, Head(wk[s].dates), wk[s].assigned_to)
    /\ wk' = [wk EXCEPT ![s] = upsert_next(wk[s])]
    /\ lastOp' = Call("weekend_insert",
                       <<[date |-> Head(wk[s].dates), assigned_to |-> wk[s].assigned_to]>>, "none")
    /\ UNCHANGED <<logs, nextId, now, today, sess, editor, refs, users, color_hex, auto, ui, cache>>

\* "Remove assignment" for one date
RemoveAssignment(d) ==
    /\ weekend' = delete_weekend_assignment(weekend, d)
    /\ lastOp' = Call("weekend_delete", <<[date |-> d]>>, "none")
    /\ UNCHANGED <<logs, nextId, now, today, sess, editor, refs, users, wk, color_hex, auto, ui, cache>>

\* midnight: date.today() moves to the next day
NextDay ==
    /\ today < 20240301 + MaxDays
    /\ today' = today + 1
    /\ UNCHANGED <<logs, nextId, now, weekend, sess, lastOp, editor, refs, users, wk, color_hex, auto, ui, cache>>

(***************************************************************************)
(* Inputs.                                                                 *)
(***************************************************************************)
BIHi005A24 == <<"B","I","H","i","0","0","5","-","A","-","2","4">>
JaneDoe == <<"J","a","n","e"," ","D","o","e">>
LowerJ == <<"j">>
UnderscoreX == <<"_","x">>

T25 == <<"T","2","5">>
IncubatorA == <<"I","n","c","u","b","a","t","o","r"," ","A">>
StemFlex == <<"S","t","e","m","F","l","e","x">>
iPSC == <<"i","P","S","C">>
BoxA2 == <<"B","o","x"," ","A","2">>

\* a filled form: the fields the inputs vary, the other required fields filled
Form(cell, event, op, day, passage, notes, assignee, next, linked) ==
    [cell_line |-> cell, event_type |-> event, operator |-> op,
     log_date |-> day, passage_no |-> passage, notes |-> notes,
     assigned_to |-> assignee, next_action_date |-> next,
     linked_thaw_id |-> linked, vessel |-> T25, location |-> IncubatorA,
     medium |-> StemFlex, cell_type |-> iPSC, cryo_vial_position |-> BoxA2]

\* thaw and follow-up entries of one cell line and day, by three operators
ThawForms(rows) ==
    {Form(BIHi005A24, "Thawing", op, 20240301, 1, "", Unassigned, None, <<>>) :
        op \in {JaneDoe, LowerJ, UnderscoreX}}
    \cup {Form(BIHi005A24, "Observation", JaneDoe, 20240301, 1, "", Unassigned, None, l) :
        l \in linked_options(rows)}

\* the store, with the entries about to be inserted, holds fewer than n rows
Room(n) == Len(logs) + Cardinality(Pending) < n

(***************************************************************************)
(* Spec: sessions submitting entries concurrently.                         *)
(***************************************************************************)
Next ==
    \E s \in Sessions :
        \/ \E f \in ThawForms(logs) : Room(MaxLogs) /\ SubmitBuild(s, f)
        \/ SubmitInsert(s)

Spec == Init /\ [][Next]_vars

(***************************************************************************)
(* SpecSeq: submissions one at a time (no count query while another        *)
(* session is between its count query and its insert), with edits that     *)
(* clear the thaw id of an entry in between.                               *)
(***************************************************************************)
ClearThawId(log_id) == Patch(log_id, [c \in {"thaw_id"} |-> <<>>])

NextSeq ==
    \/ \E s \in Sessions : \E f \in ThawForms(logs) :
           Pending = {} /\ Room(MaxLogs) /\ SubmitBuild(s, f)
    \/ \E s \in Sessions : SubmitInsert(s)
    \/ \E i \in 1..Len(logs) : logs[i].thaw_id # <<>> /\ ClearThawId(logs[i].id)

SpecSeq == Init /\ [][NextSeq]_vars

(***************************************************************************)
(* Claims on the thaw-id generator.                                        *)
(***************************************************************************)
StartsWith(s, p) == Len(s) >= Len(p) /\ SubSeq(s, 1, Len(p)) = p

\* the id C1 names: the prefix, "-", and N+1 with a leading zero below 10, where N
\* is the number of rows whose thaw_id starts with the prefix
ClaimedThawId(rows, cell_line, operator, d) ==
    LET prefix == thaw_prefix(cell_line, operator, d)
        N == Cardinality({i \in 1..Len(rows) : StartsWith(rows[i].thaw_id, prefix)})
    IN  prefix \o Dash
            \o (IF N + 1 < 10 THEN <<"0">> \o DecimalDigits(N + 1) ELSE DecimalDigits(N + 1))

\* s runs the count query of a Thawing submission in this step
Mints(s) ==
    sess[s].pc = "idle" /\ sess'[s].pc = "insert" /\ sess'[s].payload.event_type = "Thawing"

\* C1: the id generate_thaw_id returns for (cell_line, operator, date) on a store is
\* the prefix, "-" and N+1 in two digits, N the number of rows whose thaw_id starts
\* with the prefix.
C1_ThawIdIsPrefixCountPlusOne ==
    [][\A s \in Sessions :
          Mints(s) =>
              sess'[s].payload.thaw_id =
                  ClaimedThawId(logs, sess'[s].payload.cell_line,
                                sess'[s].payload.operator, sess'[s].payload.date[1])]_vars

\* C2: with submissions one at a time and patches in between, no two Thawing
\* entries hold the same thaw id.
C2_NoTwoThawingEntriesShareThawId ==
    \A i, j \in 1..Len(logs) :
        (i # j /\ logs[i].event_type = "Thawing" /\ logs[j].event_type = "Thawing"
              /\ logs[i].thaw_id # <<>>)
            => logs[i].thaw_id # logs[j].thaw_id

\* sessions s and t have both inserted a Thawing entry for one (date, cell line,
\* operator), and both count queries read the store before either insert
Raced(s, t) ==
    /\ s # t
    /\ sess[s].pc = "idle" /\ sess[t].pc = "idle"
    /\ sess[s].row # 0 /\ sess[t].row # 0
    /\ sess[s].seen = sess[t].seen
    /\ logs[sess[s].row].event_type = "Thawing" /\ logs[sess[t].row].event_type = "Thawing"
    /\ logs[sess[s].row].date = logs[sess[t].row].date
    /\ logs[sess[s].row].cell_line = logs[sess[t].row].cell_line
    /\ logs[sess[s].row].operator = logs[sess[t].row].operator

\* C3: two sessions that both run the count query for the same (date, cell line,
\* operator) before either inserts store their two entries with the same thaw id.
C3_RacingSubmissionsShareThawId ==
    \A s, t \in Sessions :
        Raced(s, t) => logs[sess[s].row].thaw_id = logs[sess[t].row].thaw_id

C3_TwoThawingEntriesWithOneThawId ==
    \E s, t \in Sessions :
        /\ Raced(s, t)
        /\ sess[s].row # sess[t].row
        /\ logs[sess[s].row].thaw_id = logs[sess[t].row].thaw_id
        /\ logs[sess[s].row].thaw_id # <<>>

(***************************************************************************)
(* SpecPatch: one session inserting entries with a follow-up date, and     *)
(* callers of update_log_fields. SpecBulk: the same session, and callers   *)
(* of bulk_update_logs.                                                    *)
(***************************************************************************)
MaxPatchLogs == 2
MaxBatch == 3

OpenForms ==
    {Form(BIHi005A24, "Thawing", JaneDoe, 20240301, 1, "", Unassigned, Some(20240302), <<>>)}

Updates(c, v) == [k \in {c} |-> v]
NoUpdates == <<>>
MarkDone == Updates("next_action_date", None)

\* ids of rows the store may hold, and one (the last) that it never holds
PatchIds == 1..(MaxPatchLogs + 1)
MissingId == MaxPatchLogs + 1

PatchInputs ==
    {NoUpdates, Updates("notes", "x"), MarkDone, Updates("date", None),
     Updates("created_by", LowerJ), Updates("id", 2)}

\* the row patches a batch is made of: two that succeed on their rows, one for an
\* id no row has, one the store refuses (NULL in the NOT NULL column date)
BatchItems ==
    {[id |-> 1, updates |-> Updates("notes", "x")],
     [id |-> 2, updates |-> MarkDone],
     [id |-> MissingId, updates |-> Updates("notes", "x")],
     [id |-> 1, updates |-> Updates("date", None)]}

RECURSIVE SeqsOfDistinct(_, _)
SeqsOfDistinct(S, n) ==
    IF n = 0 THEN {<<>>}
    ELSE {<<>>} \cup UNION {{<<x>> \o q : q \in SeqsOfDistinct(S \ {x}, n - 1)} : x \in S}

Batches == SeqsOfDistinct(BatchItems, MaxBatch) \ {<<>>}

NextPatch ==
    \/ \E f \in OpenForms : Room(MaxPatchLogs) /\ SubmitBuild("s1", f)
    \/ SubmitInsert("s1")
    \/ \E id \in PatchIds : \E u \in PatchInputs : Patch(id, u)

SpecPatch == Init /\ [][NextPatch]_vars

NextBulk ==
    \/ \E f \in OpenForms : Room(MaxPatchLogs) /\ SubmitBuild("s1", f)
    \/ SubmitInsert("s1")
    \/ \E ch \in Batches : BulkPatch(ch)

SpecBulk == Init /\ [][NextBulk]_vars

(***************************************************************************)
(* Claims on the patch layer.                                              *)
(***************************************************************************)
HasId(rows, id) == \E i \in 1..Len(rows) : rows[i].id = id

\* this step is a call of update_log_fields / of bulk_update_logs
IsPatch == lastOp'.op = "patch"
IsBulk == lastOp'.op = "bulk"
PatchedId == lastOp'.changes[1].id
PatchUpdates == lastOp'.changes[1].updates

\* C4: a patch on an id no entry has fails with NotFound, and the store is unchanged.
C4_PatchOfMissingIdFailsNotFound ==
    [][(IsPatch /\ ~HasId(logs, PatchedId)) => (lastOp'.err = "NotFound" /\ logs' = logs)]_vars

\* a row patch fails when no row has its id or the store refuses it
ItemFails(rows, item) ==
    ~HasId(rows, item.id) \/ update_log_fields(rows, item.id, item.updates).err # "none"

\* the store after every row patch of the batch that does not fail, in order
RECURSIVE apply_each(_, _, _)
apply_each(rows, changes, k) ==
    IF k > Len(changes) THEN rows
    ELSE apply_each(IF ItemFails(rows, changes[k]) THEN rows
                    ELSE update_log_fields(rows, changes[k].id, changes[k].updates).rows,
                    changes, k + 1)

\* the ids of the row patches of the batch that fail
RECURSIVE failed_ids(_, _, _)
failed_ids(rows, changes, k) ==
    IF k > Len(changes) THEN {}
    ELSE IF ItemFails(rows, changes[k])
         THEN {changes[k].id} \cup failed_ids(rows, changes, k + 1)
         ELSE failed_ids(update_log_fields(rows, changes[k].id, changes[k].updates).rows,
                         changes, k + 1)

\* C5: in a batch, a row patch that fails does not keep the other row patches,
\* before or after it, from being applied.
C5_BulkAppliesEveryOtherRow ==
    [][IsBulk => logs' = apply_each(logs, lastOp'.changes, 1)]_vars

\* C6: the caller of a batch receives a report naming each row whose patch failed.
C6_BulkReportsFailedRows ==
    [][IsBulk => lastOp'.reported = failed_ids(logs, lastOp'.changes, 1)]_vars

\* C7: patch and bulk_patch leave id, created_by and created_at of every entry as
\* they were.
C7_PatchKeepsIdentityFields ==
    [][(IsPatch \/ IsBulk) =>
          /\ Len(logs') = Len(logs)
          /\ \A i \in 1..Len(logs) :
                /\ logs'[i].id = logs[i].id
                /\ logs'[i].created_by = logs[i].created_by
                /\ logs'[i].created_at = logs[i].created_at]_vars

\* C8: a patch changes only the fields it names, and only on the row with its id;
\* a patch naming no field changes nothing.
C8_PatchChangesOnlyNamedFields ==
    [][IsPatch =>
          /\ Len(logs') = Len(logs)
          /\ \A i \in 1..Len(logs) :
                IF logs[i].id = PatchedId
                THEN \A c \in Columns \ DOMAIN PatchUpdates : logs'[i][c] = logs[i][c]
                ELSE logs'[i] = logs[i]
          /\ (DOMAIN PatchUpdates = {} => logs' = logs)]_vars

C8_NotesPatchedOtherRowKept ==
    /\ lastOp.op = "patch" /\ lastOp.err = "none"
    /\ lastOp.changes[1].updates = Updates("notes", "x")
    /\ \E i, j \in 1..Len(logs) :
          /\ logs[i].id = lastOp.changes[1].id
          /\ logs[i].notes = "x" /\ logs[i].next_action_date # None
          /\ logs[j].id # lastOp.changes[1].id
          /\ logs[j].notes = ""

\* C10: the patch next_action_date = absent makes an OPEN entry DONE, and applying
\* it once more leaves the store as the first application left it.
C10_MarkDoneIsIdempotent ==
    [][(IsPatch /\ PatchUpdates = MarkDone
          /\ \E i \in 1..Len(logs) : logs[i].id = PatchedId /\ logs[i].next_action_date # None)
        => /\ lastOp'.err = "none"
           /\ \A i \in 1..Len(logs) :
                 logs[i].id = PatchedId => logs'[i].next_action_date = None
           /\ update_log_fields(logs', PatchedId, MarkDone).rows = logs'
           /\ update_log_fields(logs', PatchedId, MarkDone).err = "none"]_vars

C10_OpenEntryMarkedDone ==
    /\ lastOp.op = "patch" /\ lastOp.err = "none"
    /\ lastOp.changes[1].updates = MarkDone
    /\ \E i \in 1..Len(logs) :
          logs[i].id = lastOp.changes[1].id /\ logs[i].next_action_date = None

(***************************************************************************)
(* SpecEdit: two sessions with the table editors open on the same entries. *)
(***************************************************************************)
MaxEditLogs == 1
MaxEdits == 1

\* entries with and without a next action date
EditForms ==
    {Form(BIHi005A24, "Thawing", JaneDoe, 20240301, 1, "", Unassigned, n, <<>>) :
        n \in {None, Some(20240302)}}

\* what a user types into a cell
EditCells ==
    {<<"Notes", PyStr("x")>>, <<"Mark Done", PyBool(TRUE)>>,
     <<"Next Action Date", Timestamp(20240303)>>, <<"Next Action", Timestamp(20240303)>>}

NextEdit ==
    \/ \E f \in EditForms : Room(MaxEditLogs) /\ SubmitBuild("s1", f)
    \/ SubmitInsert("s1")
    \/ \E s \in Sessions :
           \/ OpenHistory(s)
           \/ OpenRunSheet(s)
           \/ \E k \in 1..MaxEditLogs : \E e \in EditCells :
                  Cardinality(edits(s)) < MaxEdits /\ EditCell(s, k, e[1], e[2])
           \/ SaveHistory(s)
           \/ SaveRunSheet(s)

SpecEdit == Init /\ [][NextEdit]_vars

\* the step is a save by session s
Saves(s) == editor[s].tab # "none" /\ editor'[s].tab = "none"

\* the cells of the open editor that show the column c
labels_of(c) ==
    IF c = "notes" THEN {"Notes"}
    ELSE IF c = "assigned_to" THEN {"Assigned To"}
    ELSE IF c = "next_action_date" THEN {"Next Action Date", "Next Action", "Mark Done"}
    ELSE IF c = "date" THEN {"Date"}
    ELSE IF c = "thaw_id" THEN {"Thaw ID"}
    ELSE {}

\* session s changed, in row k of its editor, a cell that shows the column c
SessionChanged(s, k, c) == \E l \in labels_of(c) : <<k, l>> \in edits(s)

\* C9: when a session saves its editor, every field it did not change keeps the
\* value the store holds: a field another session changed since the frame was
\* read is not rewritten with the value of the frame
C9_SaveRewritesOnlyChangedFields ==
    [][\A s \in Sessions : Saves(s) =>
         \A k \in 1..Len(editor[s].base) : \A c \in InsertCols :
             ~SessionChanged(s, k, c) =>
                 \A i \in 1..Len(logs) :
                     logs[i].id = editor[s].base[k]["ID"][2] => logs'[i][c] = logs[i][c]]_vars

(***************************************************************************)
(* SpecDone: the life of an entry's next action. One session submits       *)
(* entries with a next action date; the entries are patched, the run sheet *)
(* is edited and saved, days pass, and the reference tables, the operators *)
(* and the weekend schedule are maintained meanwhile.                      *)
(***************************************************************************)
MaxDoneLogs == 1

Alice == "alice"

\* an entry whose next action is due on the day it is entered
DueForms ==
    {Form(BIHi005A24, "Thawing", JaneDoe, 20240301, 1, "", Unassigned, Some(20240301), <<>>)}

\* patches that close an entry or touch another field
DonePatches == {MarkDone, Updates("notes", "x")}

\* what a user types into a cell of the run sheet
RunCells == {<<"Notes", PyStr("x")>>, <<"Mark Done", PyBool(TRUE)>>}

\* maintenance of the reference tables, the operators and the weekend schedule
Maintenance ==
    \/ DeleteRef("culture_medium", StemFlex)
    \/ AddOperator(JaneDoe)
    \/ UpsertCall("s2", <<20240302>>, Some(Alice))
    \/ UpsertUpdate("s2")
    \/ UpsertInsert("s2")

NextDone ==
    \/ \E f \in DueForms : Room(MaxDoneLogs) /\ SubmitBuild("s1", f)
    \/ SubmitInsert("s1")
    \/ \E id \in 1..MaxDoneLogs : \E u \in DonePatches : Patch(id, u)
    \/ OpenRunSheet("s1")
    \/ \E k \in 1..MaxDoneLogs : \E e \in RunCells :
           edits("s1") = {} /\ EditCell("s1", k, e[1], e[2])
    \/ SaveRunSheet("s1")
    \/ NextDay
    \/ Maintenance

SpecDone == Init /\ [][NextDone]_vars

\* the store call of the step patched the entry with this id, setting its
\* next_action_date to absent
ClosedByPatch(id) ==
    /\ lastOp'.op \in {"patch", "bulk", "run", "history"}
    /\ \E k \in 1..Len(lastOp'.changes) :
           /\ lastOp'.changes[k].id = id
           /\ "next_action_date" \in DOMAIN lastOp'.changes[k].updates
           /\ lastOp'.changes[k].updates["next_action_date"] = None

C12_ThawIdMintedOrHeldByEarlierEntry ==
    \A i \in 1..Len(logs) :
        logs[i].thaw_id # <<>> =>
            \/ logs[i].event_type = "Thawing"
            \/ \E j \in 1..(i - 1) : logs[j].thaw_id = logs[i].thaw_id

(***************************************************************************)
(* SpecForm: one session submits entry forms, filled and with a required   *)
(* field left empty or blank.                                              *)
(***************************************************************************)
MaxFormLogs == 2

Blank == <<" ">>

\* the text fields of the form that some check reads
TextFields ==
    {"cell_line", "vessel", "location", "medium", "cell_type", "operator", "cryo_vial_position"}

\* a thaw and its follow-up, the follow-up linked to each option of the select box
FilledForms(rows) ==
    {Form(BIHi005A24, "Thawing", JaneDoe, 20240301, 1, "", Unassigned, None, <<>>)}
    \cup {Form(BIHi005A24, "Observation", JaneDoe, 20240301, 1, "", Unassigned, None, l) :
            l \in linked_options(rows) \cup {<<>>}}

\* the filled forms, and each with one text field emptied or blanked
AnyForms(rows) ==
    FilledForms(rows)
    \cup {[f EXCEPT ![c] = b] : f \in FilledForms(rows), c \in TextFields, b \in {<<>>, Blank}}

NextForm ==
    \/ \E f \in AnyForms(logs) : Room(MaxFormLogs) /\ SubmitBuild("s1", f)
    \/ \E f \in AnyForms(logs) : SubmitRejected("s1", f)
    \/ SubmitInsert("s1")

SpecForm == Init /\ [][NextForm]_vars

\* a required field of the form is blank
HasBlankRequired(f) ==
    \/ \E c \in {"cell_line", "vessel", "location", "medium", "cell_type", "operator"} :
           is_blank(f[c])
    \/ f.event_type = "Thawing" /\ is_blank(f.cryo_vial_position)
    \/ f.event_type # "Thawing" /\ (is_blank(f.linked_thaw_id) \/ f.linked_thaw_id = NoneLabel)

C14_InsertReturnsAssignedId ==
    [][(lastOp'.op = "insert" /\ Len(logs') = Len(logs) + 1)
          => lastOp'.ret = Some(logs'[Len(logs')].id)]_vars

(***************************************************************************)
(* SpecClock: sessions submitting entries concurrently while the clock     *)
(* advances.                                                               *)
(***************************************************************************)
NextClock ==
    \/ \E s \in Sessions : \E f \in ThawForms(logs) : Room(MaxLogs) /\ SubmitBuild(s, f)
    \/ \E s \in Sessions : SubmitInsert(s)
    \/ Tick

SpecClock == Init /\ [][NextClock]_vars

\* C15: an entry inserted before another has a created_at no later than the
\* other's, also when sessions interleave
C15_CreatedAtFollowsInsertionOrder ==
    \A i, j \in 1..Len(logs) :
        i < j => logs[i].created_at[1] <= logs[j].created_at[1]

(***************************************************************************)
(* SpecPassage: one session submits a thaw and then splits and             *)
(* observations of the line, typing a passage number of its own.           *)
(***************************************************************************)
MaxPassage == 3

PassageForms(rows) ==
    {Form(BIHi005A24, "Thawing", JaneDoe, 20240301, p, "", Unassigned, None, <<>>) :
        p \in 1..MaxPassage}
    \cup {Form(BIHi005A24, e, JaneDoe, 20240301, p, "", Unassigned, None, l) :
            e \in {"Split", "Observation"}, p \in 1..MaxPassage,
            l \in list_distinct_thaw_ids(rows)}

NextPassage ==
    \/ \E f \in PassageForms(logs) : Room(MaxLogs) /\ SubmitBuild("s1", f)
    \/ SubmitInsert("s1")

SpecPassage == Init /\ [][NextPassage]_vars

\* C16: the passage number stored with an entry is the one the form submitted,
\* whatever the event type
C16_StoredPassageIsSubmittedPassage ==
    [][\A s \in Sessions :
          (sess[s].pc = "insert" /\ sess'[s].pc = "idle")
          => logs'[Len(logs')].passage = Some(sess[s].form.passage_no)]_vars

(***************************************************************************)
(* SpecWeekend: two sessions save and remove weekend assignments.          *)
(***************************************************************************)
Bob == "bob"

\* a Saturday, and the Saturday with its Sunday
DutyRanges == {<<20240302>>, <<20240302, 20240303>>}

NextWeekend ==
    \/ \E s \in Sessions : \E dates \in DutyRanges : \E a \in {Some(Alice), Some(Bob)} :
           UpsertCall(s, dates, a)
    \/ \E s \in Sessions : UpsertUpdate(s)
    \/ \E s \in Sessions : UpsertInsert(s)
    \/ \E d \in {20240302, 20240303} : weekend_rowcount(weekend, d) > 0 /\ RemoveAssignment(d)

SpecWeekend == Init /\ [][NextWeekend]_vars

\* C17: the weekend schedule holds at most one row for a date, also when two
\* sessions upsert the same date concurrently
C17_OneRowPerDate ==
    \A i, j \in 1..Len(weekend) : weekend[i].date = weekend[j].date => i = j

(***************************************************************************)
(* SpecRef: the Settings tab adds, renames and deletes cell lines, media   *)
(* and operators while a session logs a thaw of a cell line of the list.   *)
(***************************************************************************)
MaxRefLogs == 1
MaxRefs == 2

WTC11 == <<"W", "T", "C", "1", "1">>
PaddedWTC11 == <<" ", "W", "T", "C", "1", "1", " ">>

\* the names typed into "Add" and "Rename" for the cell lines
CellLineInputs == {BIHi005A24, WTC11, PaddedWTC11}

RefForms == {Form(BIHi005A24, "Thawing", JaneDoe, 20240301, 1, "", Unassigned, None, <<>>)}

NextRef ==
    \/ \E name \in CellLineInputs :
           /\ count_name(refs.cell_line, strip(name)) > 0 \/ Len(refs.cell_line) < MaxRefs
           /\ AddRef("cell_line", name)
    \/ AddRef("culture_medium", StemFlex)
    \/ \E i \in 1..Len(refs.cell_line) : \E name \in CellLineInputs :
           RenameRef("cell_line", refs.cell_line[i], name)
    \/ \E i \in 1..Len(refs.cell_line) : DeleteRef("cell_line", refs.cell_line[i])
    \/ AddOperator(JaneDoe)
    \/ \E i \in 1..Len(users) : DeleteOperator(users[i])
    \/ \E f \in RefForms :
           /\ count_name(refs.cell_line, f.cell_line) > 0
           /\ count_name(users, f.operator) > 0
           /\ Room(MaxRefLogs)
           /\ SubmitBuild("s1", f)
    \/ SubmitInsert("s1")

SpecRef == Init /\ [][NextRef]_vars

\* C18: no reference table holds a name twice
C18_NamesUniquePerKind ==
    \A kind \in RefKinds :
        \A i, j \in 1..Len(refs[kind]) : refs[kind][i] = refs[kind][j] => i = j

\* the step is a call add_ref_value(kind, name) with the name already in the table
AddOfExistingName ==
    /\ lastOp'.op = "add_ref"
    /\ count_name(refs[lastOp'.changes[1].kind], strip(lastOp'.changes[1].name)) > 0

C20_CatalogChangesLeaveLogs ==
    [][lastOp'.op \in {"rename_ref", "delete_ref", "delete_user"}
       => (logs' = logs /\ lastOp'.err = "none")]_vars

\* the cell line of a stored entry was renamed in the list: the entry keeps the
\* old name, the list no longer has it
C20_RenamedCellLineStillInEntry ==
    /\ lastOp.op = "rename_ref"
    /\ lastOp.err = "none"
    /\ lastOp.changes[1].kind = "cell_line"
    /\ lastOp.changes[1].name # strip(lastOp.changes[1].new_name)
    /\ \E i \in 1..Len(logs) : logs[i].cell_line = lastOp.changes[1].name
    /\ count_name(refs.cell_line, lastOp.changes[1].name) = 0

(***************************************************************************)
(* SpecColor: two sessions run the palette allocation while operators are  *)
(* created, recolored and deleted.                                         *)
(***************************************************************************)
Red == "#ff0000"

NextColor ==
    \/ \E u \in {JaneDoe, LowerJ} : count_name(users, u) = 0 /\ CreateUser(u)
    \/ count_name(users, JaneDoe) = 0 /\ AddOperator(JaneDoe)
    \/ \E i \in 1..Len(users) : SaveColor(users[i], Red)
    \/ \E i \in 1..Len(users) : DeleteOperator(users[i])
    \/ \E s \in Sessions : AutoRead(s)
    \/ \E s \in Sessions : AutoStep(s)

SpecColor == Init /\ [][NextColor]_vars

\* C21: a color that is not empty changes only by an explicit color change for
\* that operator ("Save color", or "Add Operator" with a color)
C21_AssignedColorChangesOnlyExplicitly ==
    [][\A u \in DOMAIN color_hex \cap DOMAIN color_hex' :
          (color_hex[u] # "" /\ color_hex'[u] # color_hex[u])
          => /\ lastOp'.op \in {"save_color", "add_user"}
             /\ strip(lastOp'.changes[1].name) = u]_vars

(***************************************************************************)
(* SpecQuery: a session logs entries of one line on two days, in either    *)
(* order of the days and while the clock advances, and the log is queried. *)
(***************************************************************************)
MaxQueryLogs == 2

QueryForms(rows) ==
    {Form(BIHi005A24, "Thawing", op, d, 1, "", Unassigned, None, <<>>) :
        op \in {JaneDoe, LowerJ}, d \in {20240229, 20240301}}

\* no filter, then one filter each, then two together; "5-A" is a part of the cell
\* line in another case, "5_a" and "%" are no part of it
QueryInputs ==
    {NoFilters,
     [NoFilters EXCEPT !.user = JaneDoe],
     [NoFilters EXCEPT !.start_date = Some(20240301)],
     [NoFilters EXCEPT !.end_date = Some(20240229)],
     [NoFilters EXCEPT !.event_type = "Observation"],
     [NoFilters EXCEPT !.cell_line_contains = <<"5", "-", "A">>],
     [NoFilters EXCEPT !.cell_line_contains = <<"5", "_", "a">>],
     [NoFilters EXCEPT !.cell_line_contains = <<"%">>],
     [NoFilters EXCEPT !.user = LowerJ, !.start_date = Some(20240301)]}

NextQuery ==
    \/ \E f \in QueryForms(logs) : Room(MaxQueryLogs) /\ SubmitBuild("s1", f)
    \/ SubmitInsert("s1")
    \/ Tick
    \/ \E q \in QueryInputs : QueryLogs(q)

SpecQuery == Init /\ [][NextQuery]_vars

\* text s holds text t as a run of consecutive characters
Contains(s, t) == \E k \in 0..(Len(s) - Len(t)) : SubSeq(s, k + 1, k + Len(t)) = t

\* the entry satisfies every filter that was supplied
Satisfies(r, q) ==
    /\ q.user # <<>> => r.created_by = q.user
    /\ q.event_type # "" => r.event_type = q.event_type
    /\ q.thaw_id # <<>> => r.thaw_id = q.thaw_id
    /\ q.start_date # None => r.date[1] >= q.start_date[1]
    /\ q.end_date # None => r.date[1] <= q.end_date[1]
    /\ q.cell_line_contains # <<>> => Contains(LowerStr(r.cell_line), LowerStr(q.cell_line_contains))

\* C22: query_logs returns exactly the entries that satisfy all supplied filters,
\* in ascending order of (date, created_at)
C22_QueryReturnsMatchingEntriesInOrder ==
    [][lastOp'.op = "query_logs"
       => LET q == lastOp'.changes[1]
              ret == lastOp'.ret[1]
          IN  /\ Range(ret) = {logs[i] : i \in {j \in 1..Len(logs) : Satisfies(logs[j], q)}}
              /\ \A i, j \in 1..Len(ret) :
                    i < j => \/ ret[i].date[1] < ret[j].date[1]
                             \/ /\ ret[i].date[1] = ret[j].date[1]
                                /\ ret[i].created_at[1] <= ret[j].created_at[1]]_vars

(***************************************************************************)
(* SpecPredict: a session logs thaws of two lines on two days with         *)
(* passage numbers of its choice, the passage of the first entry is set to *)
(* 0 or cleared, and the next passage is predicted.                        *)
(***************************************************************************)
MaxPredictLogs == 2

PredictForms ==
    {Form(c, "Thawing", JaneDoe, d, p, "", Unassigned, None, <<>>) :
        c \in {BIHi005A24, WTC11}, d \in {20240229, 20240301}, p \in {1, 3}}

NextPredict ==
    \/ \E f \in PredictForms : Room(MaxPredictLogs) /\ SubmitBuild("s1", f)
    \/ SubmitInsert("s1")
    \/ Tick
    \/ \E v \in {None, Some(0)} : logs # <<>> /\ Patch(1, Updates("passage", v))
    \/ \E c \in {BIHi005A24, WTC11} : PredictNextPassage(c)

SpecPredict == Init /\ [][NextPredict]_vars

\* the entries of a cell line that no entry of the line follows in (date, created_at)
MostRecent(rows, cell_line) ==
    {r \in Range(rows) :
        /\ r.cell_line = cell_line
        /\ \A o \in Range(rows) :
              o.cell_line = cell_line
              => \/ o.date[1] < r.date[1]
                 \/ o.date[1] = r.date[1] /\ o.created_at[1] <= r.created_at[1]}

\* C23: predict_next_passage returns P + 1 when the most recent entry of the cell
\* line has passage P > 0, and absent when the line has no entry or that entry's
\* passage is 0 or absent
C23_PredictionFromMostRecentEntry ==
    [][lastOp'.op = "predict_next_passage"
       => LET recent == MostRecent(logs, lastOp'.changes[1].cell_line)
              ret == lastOp'.ret[1]
          IN  IF recent = {} THEN ret = None
              ELSE \E r \in recent :
                      ret = IF r.passage # None /\ r.passage[1] > 0
                            THEN Some(r.passage[1] + 1) ELSE None]_vars

\* passage 2 was predicted for a line whose entry inserted last, of an earlier
\* day, has passage 3
C23_PredictedFromLaterDayNotLaterInsert ==
    /\ lastOp.op = "predict_next_passage"
    /\ lastOp.changes[1].cell_line = BIHi005A24
    /\ lastOp.ret = Some(Some(2))
    /\ Len(logs) = 2
    /\ logs[2].cell_line = BIHi005A24 /\ logs[2].passage = Some(3)
    /\ logs[2].date[1] < logs[1].date[1]

(***************************************************************************)
(* SpecThaw: a session logs thaws of two lines on two days and             *)
(* observations of the first line linked to any thaw, the Thaw ID cell of  *)
(* an entry is cleared, and the latest thaw of a line is looked up.        *)
(***************************************************************************)
MaxThawLogs == 2

LineForms(rows) ==
    {Form(c, "Thawing", JaneDoe, d, 1, "", Unassigned, None, <<>>) :
        c \in {BIHi005A24, WTC11}, d \in {20240229, 20240301}}
    \cup {Form(BIHi005A24, "Observation", JaneDoe, 20240301, 1, "", Unassigned, None, l) :
            l \in list_distinct_thaw_ids(rows)}

NextThaw ==
    \/ \E f \in LineForms(logs) : Room(MaxThawLogs) /\ SubmitBuild("s1", f)
    \/ SubmitInsert("s1")
    \/ Tick
    \/ \E i \in 1..Len(logs) : logs[i].thaw_id # <<>> /\ ClearThawId(logs[i].id)
    \/ \E c \in {BIHi005A24, WTC11} : LastThawId(c)

SpecThaw == Init /\ [][NextThaw]_vars

\* the Thawing entries of a cell line
Thaws(rows, cell_line) ==
    {r \in Range(rows) : r.cell_line = cell_line /\ r.event_type = "Thawing"}

\* the entries of a set that no entry of the set follows in (date, created_at)
Latest(entries) ==
    {r \in entries :
        \A o \in entries :
            \/ o.date[1] < r.date[1]
            \/ (o.date[1] = r.date[1] /\ o.created_at[1] <= r.created_at[1])}

MaxEventLogs == 2

EventForms(rows) ==
    {Form(BIHi005A24, "Thawing", JaneDoe, d, 1, "", Unassigned, None, <<>>) :
        d \in {20240229, 20240301}}
    \cup {Form(BIHi005A24, e, JaneDoe, 20240301, 1, "", Unassigned, None, l) :
            e \in {"Observation", "Media Change", "Split", "SPLIT", "Cryopreservation", "Other"},
            l \in list_distinct_thaw_ids(rows)}

NextEvent ==
    \/ \E f \in EventForms(logs) : Room(MaxEventLogs) /\ SubmitBuild("s1", f)
    \/ SubmitInsert("s1")
    \/ Tick
    \/ \E c \in {BIHi005A24, WTC11} : SuggestNextEvent(c)

SpecEvent == Init /\ [][NextEvent]_vars

\* the fixed table, on event types in lower case
Suggested(event_type) ==
    IF event_type \in {"thawing", "media change", "split", "cryopreservation"}
    THEN Some("Observation")
    ELSE IF event_type = "observation" THEN Some("Media Change")
    ELSE None

\* the event types in use, in lower case
LowerCased(event_type) ==
    IF event_type \in {"Split", "SPLIT"} THEN "split"
    ELSE IF event_type = "Thawing" THEN "thawing"
    ELSE IF event_type = "Observation" THEN "observation"
    ELSE IF event_type = "Media Change" THEN "media change"
    ELSE IF event_type = "Cryopreservation" THEN "cryopreservation"
    ELSE "other"

\* C25: suggest_next_event maps the lower-cased event type of the most recent entry
\* of the cell line through the fixed table, and returns absent when the line has
\* no entry or the event type is not in the table
C25_SuggestionFromMostRecentEvent ==
    [][lastOp'.op = "suggest_next_event"
       => LET recent == MostRecent(logs, lastOp'.changes[1].cell_line)
              ret == lastOp'.ret[1]
          IN  IF recent = {} THEN ret = None
              ELSE \E r \in recent : ret = Suggested(LowerCased(r.event_type))]_vars

\* 'Observation' was suggested after an entry of event type 'SPLIT', inserted
\* after a thaw of the same day
C25_ObservationAfterUpperCaseSplit ==
    /\ lastOp.op = "suggest_next_event"
    /\ lastOp.ret = Some(Some("Observation"))
    /\ Len(logs) = 2
    /\ logs[1].event_type = "Thawing"
    /\ logs[2].event_type = "SPLIT"
    /\ logs[2].created_at[1] > logs[1].created_at[1]

(***************************************************************************)
(* SpecDuty: one session saves and removes weekend assignments, and the    *)
(* duty is looked up for the days from Friday to Monday.                   *)
(***************************************************************************)
DutyDates == {20240301, 20240302, 20240303, 20240304}

NextDuty ==
    \/ \E dates \in DutyRanges \cup {<<20240303>>} : \E a \in {Some(Alice), Some(Bob)} :
           UpsertCall("s1", dates, a)
    \/ UpsertUpdate("s1")
    \/ UpsertInsert("s1")
    \/ \E d \in DutyDates : wk["s1"].pc = "idle" /\ RemoveAssignment(d)
    \/ \E d \in DutyDates : wk["s1"].pc = "idle" /\ WeekendDuty(d)

SpecDuty == Init /\ [][NextDuty]_vars

MaxTopLogs == 3

TopForms ==
    {Form(c, "Thawing", op, 20240301, 1, "", Unassigned, None, <<>>) :
        c \in {BIHi005A24, WTC11}, op \in {JaneDoe, LowerJ}}

NextTop ==
    \/ \E f \in TopForms : Room(MaxTopLogs) /\ SubmitBuild("s1", f)
    \/ SubmitInsert("s1")
    \/ \E column \in {"operator", "cell_line"}, c \in {<<>>, BIHi005A24}, limit \in {1, 3} :
           TopValues(column, c, limit)

SpecTop == Init /\ [][NextTop]_vars

\* ret holds at most limit distinct values that are not empty and occur in the
\* column among the entries `scope`, in non-increasing order of their count, and
\* no value of the column left out occurs more often than one in ret
RankedValues(ret, scope, column, limit) ==
    LET cnt(v) == Cardinality({i \in scope : logs[i][column] = v})
    IN  /\ Len(ret) <= limit
        /\ \A i, j \in 1..Len(ret) : i # j => ret[i] # ret[j]
        /\ \A i \in 1..Len(ret) : ret[i] # <<>> /\ cnt(ret[i]) > 0
        /\ \A i, j \in 1..Len(ret) : i < j => cnt(ret[i]) >= cnt(ret[j])
        /\ \A i \in scope : \A k \in 1..Len(ret) :
              (logs[i][column] # <<>> /\ logs[i][column] \notin Range(ret))
              => cnt(logs[i][column]) <= cnt(ret[k])
        /\ (Len(ret) < limit) => \A i \in scope : logs[i][column] = <<>> \/ logs[i][column] \in Range(ret)

MaxPrefillLogs == 3

\* a thaw by either operator, and its follow-up with each value of the select box
PrefillForms(rows) ==
    {Form(BIHi005A24, "Thawing", op, 20240301, 1, "", Unassigned, None, <<>>) :
        op \in {JaneDoe, LowerJ}}
    \cup {Form(BIHi005A24, "Observation", JaneDoe, 20240301, 1, "", Unassigned, None, l) :
            l \in linked_options(rows)}

\* a press of "Save Entry" with the form values f: the run rebuilds the form, and
\* its linked thaw block either queues a prefill and reruns, which ends the run
\* before line 775, or lets the run go on to the submit handler
SaveEntry(s, f) ==
    /\ ui[s].pending = None
    /\ form_ready(f)
    /\ f.event_type # "Thawing" => f.linked_thaw_id \in linked_thaw_select(logs, ui[s], f)
    /\ IF prefill_reruns(logs, ui[s], f)
       THEN /\ sess[s].pc = "idle"
            /\ \E latest_record \in get_latest_log_for_thaw(logs, f.linked_thaw_id) :
                  ui' = [ui EXCEPT ![s] = queue_form_prefill(ui[s], f, latest_record)]
            /\ sess' = [sess EXCEPT ![s].form = f]
            /\ lastOp' = Call("rerun", <<>>, "none")
            /\ UNCHANGED <<logs, nextId, now, today, weekend, editor, refs, users, wk,
                           color_hex, auto, cache>>
       ELSE /\ ui' = [ui EXCEPT ![s] = prefill_kept(ui[s], f)]
            /\ (submit_handler(s, f) \/ submit_rejected(s, f))

\* the run started by st.rerun(): line 543 consumes the queued prefill
Rerun(s) ==
    /\ ui[s].pending # None
    /\ ui' = [ui EXCEPT ![s] = consume_pending_form_prefill(ui[s])]
    /\ lastOp' = Call("prefill", <<>>, "none")
    /\ UNCHANGED <<logs, nextId, now, today, weekend, sess, editor, refs, users, wk,
                   color_hex, auto, cache>>

NextPrefill ==
    \/ \E f \in PrefillForms(logs) : Room(MaxPrefillLogs) /\ SaveEntry("s1", f)
    \/ Rerun("s1")
    \/ SubmitInsert("s1")
    \/ \E id \in 1..MaxPrefillLogs : Patch(id, Updates("event_type", "Observation"))

SpecPrefill == Init /\ [][NextPrefill]_vars

\* C28: a press of "Save Entry" whose form values pass validation reaches the
\* submit handler in that run (the session then stands before insert_log with
\* the payload of the form), also when the linked thaw block of the form has a
\* prefill to queue
C28_ValidPressReachesInsert ==
    [][\A s \in Sessions :
          (/\ lastOp'.op \in {"read", "rejected", "rerun"}
           /\ sess'[s] # sess[s] \/ ui'[s] # ui[s]
           /\ form_valid(sess'[s].form, today))
          => (lastOp'.op = "read" /\ sess'[s].pc = "insert")]_vars

(***************************************************************************)
(* The suffix of a thaw id and the entries of other triples (SpecSeq).     *)
(***************************************************************************)
\* the rows whose thaw_id was minted for the prefix: the prefix, "-" and two digits
MintedFor(rows, prefix) ==
    {i \in 1..Len(rows) :
        /\ Len(rows[i].thaw_id) = Len(prefix) + 3
        /\ StartsWith(rows[i].thaw_id, prefix \o Dash)
        /\ \A k \in (Len(prefix) + 2)..(Len(prefix) + 3) :
              rows[i].thaw_id[k] \in Range(DigitChars)}

\* C29: the first thaw of a (date, cell line, operator) triple gets suffix 01: when
\* no entry holds a thaw id minted for the triple of the submitted Thawing form,
\* the id generate_thaw_id returns for the payload ends in -01, whatever ids minted
\* for other triples the store holds
C29_FirstThawOfTripleGetsSuffix01 ==
    [][\A s \in Sessions :
          (/\ sess[s].pc = "idle" /\ sess'[s].pc = "insert"
           /\ sess'[s].form.event_type = "Thawing"
           /\ MintedFor(logs, thaw_prefix(sess'[s].form.cell_line, sess'[s].form.operator,
                                          sess'[s].form.log_date)) = {})
          => sess'[s].payload.thaw_id
               = thaw_prefix(sess'[s].form.cell_line, sess'[s].form.operator,
                             sess'[s].form.log_date) \o Dash \o <<"0", "1">>]_vars

(***************************************************************************)
(* SpecCache: the cached log view and thaw-id list (st.cache_data, shared  *)
(* by the sessions of the server) next to the writes of the application:   *)
(* the entry form, the History editor and the run sheet. A cached value    *)
(* expires when its ttl has passed.                                        *)
(***************************************************************************)
MaxCacheLogs == 2
MaxCacheEdits == 2

\* a thaw without and with a next action
CacheForms ==
    {Form(BIHi005A24, "Thawing", JaneDoe, 20240301, 1, "", Unassigned, n, <<>>) :
        n \in {None, Some(20240302)}}

\* what the user types into a cell: a note, and a date cell emptied
CacheCells == {<<"Notes", PyStr("x")>>, <<"Date", NaT>>}

\* get_logs_df(): _load_logs_cached returns the cached frame, or runs query_logs
\* and caches what it returned
GetLogsDf ==
    /\ \E ret \in (IF cache.logs = None THEN query_logs(logs, NoFilters)
                   ELSE {cache.logs[1]}) :
          /\ cache' = [cache EXCEPT !.logs = Some(ret)]
          /\ lastOp' = [Call("get_logs_df", <<>>, "none") EXCEPT !.ret = Some(ret)]
    /\ UNCHANGED <<logs, nextId, now, today, weekend, sess, editor, refs, users, wk,
                   color_hex, auto, ui>>

\* get_thaw_ids_cached(): _cached_thaw_ids returns the cached list, or runs
\* list_distinct_thaw_ids and caches what it returned
GetThawIdsCached ==
    /\ LET ret == IF cache.thaw_ids = None THEN list_distinct_thaw_ids(logs)
                  ELSE cache.thaw_ids[1]
       IN  /\ cache' = [cache EXCEPT !.thaw_ids = Some(ret)]
           /\ lastOp' = [Call("get_thaw_ids_cached", <<>>, "none") EXCEPT !.ret = Some(ret)]
    /\ UNCHANGED <<logs, nextId, now, today, weekend, sess, editor, refs, users, wk,
                   color_hex, auto, ui>>

\* the ttl of the cached values has passed (ttl=60 and ttl=600)
CacheExpires ==
    /\ cache # NoCache
    /\ cache' = NoCache
    /\ lastOp' = Call("ttl", <<>>, "none")
    /\ UNCHANGED <<logs, nextId, now, today, weekend, sess, editor, refs, users, wk,
                   color_hex, auto, ui>>

NextCache ==
    \/ \E f \in CacheForms : Room(MaxCacheLogs) /\ SubmitBuild("s1", f)
    \/ SubmitInsert("s1")
    \/ GetLogsDf
    \/ GetThawIdsCached
    \/ CacheExpires
    \/ OpenHistory("s1")
    \/ OpenRunSheet("s1")
    \/ \E k \in 1..MaxCacheLogs : \E e \in CacheCells :
           Cardinality(edits("s1")) < MaxCacheEdits /\ EditCell("s1", k, e[1], e[2])
    \/ SaveHistory("s1")
    \/ SaveRunSheet("s1")

SpecCache == Init /\ [][NextCache]_vars

\* C30: a read through the cache returns what the store holds: after a write of
\* the application (insert, history save, run-sheet save) the cached log view and
\* the cached thaw-id list were cleared, so the read does not return the data
\* from before the write, also when a save of several rows failed part-way
C30_CachedReadReturnsStoredData ==
    [][/\ lastOp'.op = "get_logs_df" => lastOp'.ret[1] \in query_logs(logs', NoFilters)
       /\ lastOp'.op = "get_thaw_ids_cached" => lastOp'.ret[1] = list_distinct_thaw_ids(logs')]_vars

====
